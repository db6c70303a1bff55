---------------------------- MODULE LedgerProofs ----------------------------
(***************************************************************************)
(* The ledger for any users, prices, quantities, connections and calls:    *)
(* balances are never negative, a row has one writer, and seen from        *)
(* outside every call is one funded movement of money or nothing           *)
(* (AtomicLedger).                                                         *)
(*                                                                         *)
(* A transaction t runs a fixed program against the balances b, and Fits   *)
(* says how far it has come.  Nobody else writes a row it has locked, so   *)
(* what it has read and checked still holds when it commits.               *)
(*                                                                         *)
(* The entries tell the same story as the balances: a transaction has      *)
(* written the entries of the statements it has run (OwnEntries), and its  *)
(* commit adds to the journal what it adds to the balances (Explains),     *)
(* account by account and leg by leg.                                      *)
(*                                                                         *)
(* A transaction holds the rows of the statements it has run (Holding), so *)
(* that two that wait for each other lock a pair of rows in opposite       *)
(* orders, and LockOrder lists the pairs of every call.                    *)
(***************************************************************************)
EXTENDS LedgerEngine, Arithmetic, SequenceTheorems, TLAPS

Partial == UNION {[A -> Nat] : A \in SUBSET Account}

Statement == [op : {"lock", "check", "debit", "credit", "entry", "open"}, row : Account, amount : Nat]

Transaction ==
    [call : Call \cup {[name |-> "none"]}, id : 0..MaxCalls, todo : Seq(Statement),
     locks : SUBSET Account, seen : Partial, work : Partial, wrote : SUBSET LedgerEntry]

\* What a credit adds to a balance and what a debit takes from it, in units: a half is always
\* decided for the account.
Given(n) == (2 * n + Grain) \div (2 * Grain)
Taken(n) == (2 * n + Grain - 1) \div (2 * Grain)

\* A balance of n units pays for an amount.
Covers(n, amount) == n * Grain >= amount

\* What one statement adds to an account.  A program has at most ten statements, so that the
\* sum over the first k of them needs no recursion.
Effect(s, a) ==
    IF s.row # a THEN 0
    ELSE IF s.op = "debit" THEN -Taken(s.amount) ELSE IF s.op = "credit" THEN Given(s.amount) ELSE 0
EffectAt(S, i, k, a) == IF i <= k THEN Effect(S[i], a) ELSE 0
Sum10(x) == x[1] + x[2] + x[3] + x[4] + x[5] + x[6] + x[7] + x[8] + x[9] + x[10]
Moved(S, k, a) == Sum10([i \in 1..10 |-> EffectAt(S, i, k, a)])

\* How programs are written: rows are locked before they are checked or written, and nothing
\* is locked after the first write.
WellFormed(S) ==
    /\ S \in Seq(Statement) /\ Len(S) \in 1..10
    /\ \A i \in 1..Len(S) :
         /\ S[i].op = "check" => \E j \in 1..(i - 1) : S[j].op = "lock" /\ S[j].row = S[i].row
         /\ S[i].op \in {"debit", "credit"} =>
              S[i].row = SystemUsd \/ \E j \in 1..(i - 1) : S[j].op = "lock" /\ S[j].row = S[i].row
         /\ S[i].op = "lock" => \A j \in 1..(i - 1) : S[j].op \in {"lock", "check"}
         /\ S[i].op = "open" => i = 1 /\ \E u \in User : S[i].row = <<u, "USD", "CHECKING">>

View(t, b, a) == IF a \in DOMAIN t.work THEN t.work[a] ELSE b[a]

\* The first k statements of S have been run against the balances b.
Ran(S, k, t, b) ==
    /\ \A i \in 1..k :
         /\ S[i].op \in {"lock", "debit", "credit"} => S[i].row \in t.locks /\ S[i].row \in DOMAIN b
         /\ S[i].op = "lock" => S[i].row \in DOMAIN t.seen
         /\ S[i].op = "check" => S[i].row \in DOMAIN t.seen /\ Covers(t.seen[S[i].row], S[i].amount)
         /\ S[i].op = "open" => \A a \in Wallets(S[i].row[1]) :
                                   /\ a \in DOMAIN t.work /\ a \notin DOMAIN b
                                   /\ t.work[a] = OpeningBalance(S[i], a)
    /\ \A a \in DOMAIN t.seen : a \in t.locks /\ a \in DOMAIN b /\ t.seen[a] = b[a]
    /\ \A a \in DOMAIN t.work :
         /\ a \in t.locks
         /\ a \in DOMAIN b \/ \E i \in 1..k : S[i].op = "open" /\ a \in Wallets(S[i].row[1])
    /\ \A a \in DOMAIN b : View(t, b, a) = b[a] + Moved(S, k, a)

FitsAt(t, b, k) ==
    /\ t.call \in Call /\ t.id \in 1..MaxCalls
    /\ k \in 0..Len(Statements(t.call))
    /\ Len(t.todo) = Len(Statements(t.call)) - k
    /\ \A i \in 1..Len(t.todo) : t.todo[i] = Statements(t.call)[k + i]
    /\ Ran(Statements(t.call), k, t, b)
Fits(t, b) == \E k \in Nat : FitsAt(t, b, k)

LedgerInv ==
    /\ balance \in Partial /\ DOMAIN Opening \subseteq DOMAIN balance
    /\ entries \subseteq LedgerEntry
    /\ tx \in [Conn -> Transaction]
    /\ \A c \in Conn : tx[c] = Idle \/ Fits(tx[c], balance)
    /\ \A c, d \in Conn : c # d => tx[c].locks \cap tx[d].locks = {}
    /\ alarms \subseteq {"mismatch", "negative", "imbalance"}
    /\ calls \in 0..MaxCalls /\ faults \in 0..MaxFaults

-----------------------------------------------------------------------------
\* Functions from accounts to amounts.
LEMMA OverPartial ==
  ASSUME NEW f \in Partial, NEW g \in Partial
  PROVE  /\ Overlay(f, g) \in Partial
         /\ DOMAIN Overlay(f, g) = DOMAIN f \cup DOMAIN g
         /\ \A a \in DOMAIN f : Overlay(f, g)[a] = f[a]
         /\ \A a \in DOMAIN g \ DOMAIN f : Overlay(f, g)[a] = g[a]
<1>1. /\ DOMAIN f \subseteq Account /\ \A a \in DOMAIN f : f[a] \in Nat
      /\ DOMAIN g \subseteq Account /\ \A a \in DOMAIN g : g[a] \in Nat
  BY DEF Partial
<1>2. Overlay(f, g) \in [DOMAIN f \cup DOMAIN g -> Nat]
  BY <1>1 DEF Overlay
<1>3. (DOMAIN f \cup DOMAIN g) \in SUBSET Account
  BY <1>1
<1>4. Overlay(f, g) \in Partial
  BY <1>2, <1>3 DEF Partial
<1> QED
  BY <1>4 DEF Overlay

LEMMA VersionPartial ==
  ASSUME NEW a \in Account, NEW n \in Nat
  PROVE  Version(a, n) \in Partial /\ DOMAIN Version(a, n) = {a} /\ Version(a, n)[a] = n
<1>1. Version(a, n) \in [{a} -> Nat] /\ {a} \in SUBSET Account
  BY DEF Version
<1> QED
  BY <1>1 DEF Partial, Version

LEMMA PartialIs ==
  ASSUME NEW f \in Partial
  PROVE  /\ DOMAIN f \subseteq Account /\ \A a \in DOMAIN f : f[a] \in Nat
         /\ f = [a \in DOMAIN f |-> f[a]]
BY DEF Partial

LEMMA WithVersion ==
  ASSUME NEW a \in Account, NEW n \in Nat, NEW g \in Partial
  PROVE  Overlay(Version(a, n), g) \in Partial
BY VersionPartial, OverPartial

LEMMA EmptyPartial == <<>> \in Partial /\ DOMAIN <<>> = {}
<1>1. <<>> \in [{} -> Nat] /\ {} \in SUBSET Account
  OBVIOUS
<1> QED
  BY <1>1 DEF Partial

LEMMA SystemWallet ==
  /\ SystemUsd \in Account /\ SystemUsd \in DOMAIN Opening
  /\ \A u \in User : Wallets(u) \subseteq Account /\ SystemUsd \notin Wallets(u)
BY LedgerAssumption DEF SystemUsd, Account, Wallets, Owner, Currency, Kind

-----------------------------------------------------------------------------
\* Rounding: division with remainder has one quotient.
LEMMA Quotient ==
  ASSUME NEW b \in Nat, b > 0, NEW q \in Int, NEW r \in Nat, r < b, NEW a, a = b * q + r
  PROVE  a \div b = q
<1>1. a \in Int
  OBVIOUS
<1>2. PICK p \in Int, s \in Nat : a = b * p + s /\ p = a \div b /\ s = a % b
  BY <1>1, DivMod
<1>3. s = r
  <2>1. a % b = r
    BY Remainder
  <2> QED
    BY <1>2, <2>1
<1>4. b * (p - q) = 0
  BY <1>2, <1>3
<1> QED
  BY <1>2, <1>4

LEMMA Grains == Grain \in Nat /\ Grain > 0
BY LedgerAssumption

\* An amount of q whole units and a rest.
LEMMA GivenIs ==
  ASSUME NEW q \in Int, NEW r \in 0..(Grain - 1)
  PROVE  /\ Given(Grain * q + r) = q + (IF 2 * r >= Grain THEN 1 ELSE 0)
         /\ Taken(Grain * q + r) = q + (IF 2 * r > Grain THEN 1 ELSE 0)
<1> DEFINE D == 2 * Grain
           g == IF 2 * r >= Grain THEN 1 ELSE 0
           h == IF 2 * r > Grain THEN 1 ELSE 0
           n == 2 * (Grain * q + r)
<1>1. D \in Nat /\ D > 0 /\ Grain \in Nat /\ Grain > 0 /\ r \in Nat /\ r < Grain
  BY Grains
<1>2. n + Grain = D * (q + g) + (2 * r + Grain - D * g)
  <2>1. n = D * q + 2 * r
    BY <1>1
  <2>2. D * (q + g) = D * q + D * g
    BY <1>1
  <2> QED
    BY <1>1, <2>1, <2>2
<1>3. 2 * r + Grain - D * g \in Nat /\ 2 * r + Grain - D * g < D
  BY <1>1
<1>4. n + Grain - 1 = D * (q + h) + (2 * r + Grain - 1 - D * h)
  <2>1. n = D * q + 2 * r
    BY <1>1
  <2>2. D * (q + h) = D * q + D * h
    BY <1>1
  <2> QED
    BY <1>1, <2>1, <2>2
<1>5. 2 * r + Grain - 1 - D * h \in Nat /\ 2 * r + Grain - 1 - D * h < D
  BY <1>1
<1>6. q + g \in Int /\ q + h \in Int
  OBVIOUS
<1> HIDE DEF g, h, D, n
<1>7. (n + Grain) \div D = q + g
  <2>1. PICK p \in Int, s \in Nat : p = q + g /\ s = 2 * r + Grain - D * g
    BY <1>3, <1>6
  <2>2. n + Grain = D * p + s /\ s < D
    BY <1>2, <1>3, <2>1
  <2> QED
    BY <1>1, <2>1, <2>2, Quotient
<1>8. (n + Grain - 1) \div D = q + h
  <2>1. PICK p \in Int, s \in Nat : p = q + h /\ s = 2 * r + Grain - 1 - D * h
    BY <1>5, <1>6
  <2>2. n + Grain - 1 = D * p + s /\ s < D
    BY <1>4, <1>5, <2>1
  <2> QED
    BY <1>1, <2>1, <2>2, Quotient
<1> QED
  BY <1>7, <1>8 DEF Given, Taken, g, h, D, n

LEMMA Parts ==
  ASSUME NEW a \in Nat
  PROVE  \E q \in Nat : \E r \in 0..(Grain - 1) : a = Grain * q + r /\ a % Grain = r
<1>1. a \div Grain \in Int /\ a % Grain \in 0..(Grain - 1) /\ a = Grain * (a \div Grain) + (a % Grain)
  BY Grains, DivMod
<1>2. a \div Grain >= 0
  BY Grains, <1>1
<1> QED
  BY <1>1, <1>2

LEMMA GivenNat ==
  ASSUME NEW a \in Nat
  PROVE  /\ Given(a) \in Nat /\ Taken(a) \in Nat /\ Rounded(a) = Given(a)
         /\ Taken(a) = Given(a) - (IF 2 * (a % Grain) = Grain THEN 1 ELSE 0)
<1>1. PICK q \in Nat, r \in 0..(Grain - 1) : a = Grain * q + r /\ a % Grain = r
  BY Parts
<1>2. Given(a) = q + (IF 2 * r >= Grain THEN 1 ELSE 0) /\ Taken(a) = q + (IF 2 * r > Grain THEN 1 ELSE 0)
  BY <1>1, GivenIs
<1>3. Rounded(a) = Given(a)
  BY DEF Rounded, Given
<1> QED
  BY <1>1, <1>2, <1>3, Grains

LEMMA GivenShift ==
  ASSUME NEW v \in Int, NEW a \in Nat
  PROVE  /\ Given(v * Grain + a) = v + Given(a)
         /\ Given(v * Grain - a) = v - Taken(a)
         /\ Taken(v * Grain - a) = v - Given(a)
<1>1. PICK q \in Nat, r \in 0..(Grain - 1) : a = Grain * q + r
  BY Parts
<1>2. v * Grain + a = Grain * (v + q) + r
  BY <1>1, Grains
<1>3. Given(v * Grain + a) = v + Given(a)
  <2>1. v + q \in Int
    OBVIOUS
  <2>2. Given(Grain * (v + q) + r) = (v + q) + (IF 2 * r >= Grain THEN 1 ELSE 0)
    BY <2>1, GivenIs
  <2>3. Given(a) = q + (IF 2 * r >= Grain THEN 1 ELSE 0)
    BY <1>1, GivenIs
  <2> QED
    BY <1>2, <2>2, <2>3
<1> DEFINE Shifted ==
             /\ Given(v * Grain - a) = v - Taken(a)
             /\ Taken(v * Grain - a) = v - Given(a)
<1>4. /\ Given(a) = q + (IF 2 * r >= Grain THEN 1 ELSE 0)
      /\ Taken(a) = q + (IF 2 * r > Grain THEN 1 ELSE 0)
  BY <1>1, GivenIs
<1>5. CASE r = 0
  <2>1. v * Grain - a = Grain * (v - q) + 0
    BY <1>1, <1>5, Grains
  <2>2. v - q \in Int /\ 0 \in 0..(Grain - 1)
    BY Grains
  <2>3. /\ Given(Grain * (v - q) + 0) = (v - q) + (IF 2 * 0 >= Grain THEN 1 ELSE 0)
        /\ Taken(Grain * (v - q) + 0) = (v - q) + (IF 2 * 0 > Grain THEN 1 ELSE 0)
    BY <2>2, GivenIs
  <2>4. Given(v * Grain - a) = v - q /\ Taken(v * Grain - a) = v - q
    BY <2>1, <2>3, Grains
  <2> QED
    BY <1>3, <1>4, <1>5, <2>4, Grains
<1>6. CASE r # 0
  <2>1. v * Grain - a = Grain * (v - q - 1) + (Grain - r)
    <3>1. Grain * (v - q - 1) = Grain * v - Grain * q - Grain
      BY Grains
    <3> QED
      BY <1>1, <3>1, Grains
  <2>2. v - q - 1 \in Int /\ Grain - r \in 0..(Grain - 1)
    BY <1>6, Grains
  <2>3. /\ Given(Grain * (v - q - 1) + (Grain - r)) = (v - q - 1) + (IF 2 * (Grain - r) >= Grain THEN 1 ELSE 0)
        /\ Taken(Grain * (v - q - 1) + (Grain - r)) = (v - q - 1) + (IF 2 * (Grain - r) > Grain THEN 1 ELSE 0)
    BY <2>2, GivenIs
  <2>4. /\ Given(v * Grain - a) = (v - q - 1) + (IF 2 * (Grain - r) >= Grain THEN 1 ELSE 0)
        /\ Taken(v * Grain - a) = (v - q - 1) + (IF 2 * (Grain - r) > Grain THEN 1 ELSE 0)
    BY <2>1, <2>3
  <2> QED
    BY <1>3, <1>4, <2>4, Grains
<1> QED
  BY <1>5, <1>6

\* A balance of v units after a credit, and after a debit that the CHECK lets pass.
LEMMA RoundedCredit ==
  ASSUME NEW v \in Nat, NEW a \in Nat PROVE Rounded(v * Grain + a) = v + Given(a)
<1>1. v * Grain + a >= 0
  BY Grains
<1> QED
  BY <1>1, GivenShift DEF Rounded, Given

LEMMA RoundedDebit ==
  ASSUME NEW v \in Nat, NEW a \in Nat, Rounded(v * Grain - a) >= 0
  PROVE  Rounded(v * Grain - a) = v - Taken(a)
<1> DEFINE n == v * Grain - a
<1>1. CASE n >= 0
  <2>1. Rounded(n) = Given(n)
    BY <1>1 DEF Rounded, Given
  <2> QED
    BY <2>1, GivenShift
<1>2. CASE ~(n >= 0)
  <2>1. PICK q \in Nat, r \in 0..(Grain - 1) : a = Grain * q + r
    BY Parts
  <2>2. Given(a) = q + (IF 2 * r >= Grain THEN 1 ELSE 0) /\ Taken(a) = q + (IF 2 * r > Grain THEN 1 ELSE 0)
    BY <2>1, GivenIs
  <2>3. Rounded(n) = v - Given(a)
    <3>1. Rounded(n) = -((Grain - 2 * n) \div (2 * Grain))
      BY <1>2, Grains DEF Rounded
    <3>2. Grain - 2 * n = 2 * (a - v * Grain) + Grain
      BY Grains
    <3>3. Rounded(n) = -Given(a - v * Grain)
      BY <3>1, <3>2 DEF Given
    <3>4. a - v * Grain = (-v) * Grain + a
      BY Grains
    <3>5. Given((-v) * Grain + a) = (-v) + Given(a)
      BY GivenShift
    <3>6. Given(a) \in Nat
      BY GivenNat
    <3> QED
      BY <3>3, <3>4, <3>5, <3>6
  <2>4. v <= q
    <3>1. Grain * (v - q) < r
      BY <1>2, <2>1, Grains
    <3>2. SUFFICES ASSUME v - q >= 1 PROVE FALSE
      OBVIOUS
    <3>3. PICK k \in Nat : v - q = 1 + k
      BY <3>2
    <3>4. Grain * (v - q) = Grain + Grain * k /\ Grain * k \in Nat
      BY <3>3, Grains
    <3> QED
      BY <3>1, <3>4, Grains
  <2> HIDE DEF n
  <2> QED
    BY <2>2, <2>3, <2>4, Grains DEF n
<1> QED
  BY <1>1, <1>2

LEMMA RoundedInt == ASSUME NEW n \in Int PROVE Rounded(n) \in Int
<1>1. 2 * Grain \in Nat /\ 2 * Grain > 0 /\ 2 * n + Grain \in Int /\ Grain - 2 * n \in Int
  BY Grains
<1>2. (2 * n + Grain) \div (2 * Grain) \in Int /\ (Grain - 2 * n) \div (2 * Grain) \in Int
  BY <1>1, DivMod
<1> QED
  BY <1>2 DEF Rounded

LEMMA Units ==
  ASSUME NEW s \in Nat
  PROVE  s * Grain \in Nat /\ Given(s * Grain) = s /\ Taken(s * Grain) = s /\ Rounded(s * Grain) = s
<1>1. s * Grain \in Nat /\ s * Grain = Grain * s + 0 /\ 0 \in 0..(Grain - 1)
  BY Grains
<1>2. Given(s * Grain) = s /\ Taken(s * Grain) = s
  <2>1. /\ Given(Grain * s + 0) = s + (IF 2 * 0 >= Grain THEN 1 ELSE 0)
        /\ Taken(Grain * s + 0) = s + (IF 2 * 0 > Grain THEN 1 ELSE 0)
    BY <1>1, GivenIs
  <2> QED
    BY <1>1, <2>1, Grains
<1> QED
  BY <1>1, <1>2, GivenNat

-----------------------------------------------------------------------------
\* Sums of effects.
LEMMA EffectInt ==
  ASSUME NEW s \in Statement, NEW a PROVE Effect(s, a) \in Int
<1>1. s.amount \in Nat
  BY DEF Statement
<1>2. Given(s.amount) \in Nat /\ Taken(s.amount) \in Nat
  BY <1>1, GivenNat
<1> QED
  BY <1>2 DEF Effect

LEMMA SumInt ==
  ASSUME NEW x \in [1..10 -> Int] PROVE Sum10(x) \in Int
BY DEF Sum10

LEMMA SumStep ==
  ASSUME NEW x \in [1..10 -> Int], NEW y \in [1..10 -> Int], NEW j \in 1..10,
         x[j] = 0, \A i \in 1..10 : i # j => y[i] = x[i]
  PROVE  Sum10(x) \in Int /\ Sum10(y) = Sum10(x) + y[j]
<1>1. Sum10(x) \in Int
  BY DEF Sum10
<1>2. Sum10(y) = Sum10(x) + y[j]
  <2>1. CASE j = 1
    BY <2>1 DEF Sum10
  <2>2. CASE j = 2
    BY <2>2 DEF Sum10
  <2>3. CASE j = 3
    BY <2>3 DEF Sum10
  <2>4. CASE j = 4
    BY <2>4 DEF Sum10
  <2>5. CASE j = 5
    BY <2>5 DEF Sum10
  <2>6. CASE j = 6
    BY <2>6 DEF Sum10
  <2>7. CASE j = 7
    BY <2>7 DEF Sum10
  <2>8. CASE j = 8
    BY <2>8 DEF Sum10
  <2>9. CASE j = 9
    BY <2>9 DEF Sum10
  <2>10. CASE j = 10
    BY <2>10 DEF Sum10
  <2> QED
    BY <2>1, <2>2, <2>3, <2>4, <2>5, <2>6, <2>7, <2>8, <2>9, <2>10
<1> QED
  BY <1>1, <1>2

LEMMA EffectsInt ==
  ASSUME NEW S \in Seq(Statement), NEW n \in 1..10, Len(S) = n, NEW k \in 0..n, NEW a
  PROVE  [i \in 1..10 |-> EffectAt(S, i, k, a)] \in [1..10 -> Int]
<1>1. SUFFICES ASSUME NEW i \in 1..10 PROVE EffectAt(S, i, k, a) \in Int
  OBVIOUS
<1>2. CASE i <= k
  <2>1. i \in 1..Len(S)
    BY <1>2
  <2>2. S[i] \in Statement
    BY <2>1, ElementOfSeq
  <2> QED
    BY <1>2, <2>2, EffectInt DEF EffectAt
<1>3. CASE ~(i <= k)
  BY <1>3 DEF EffectAt
<1> QED
  BY <1>2, <1>3

LEMMA MovedStep ==
  ASSUME NEW S \in Seq(Statement), NEW n \in 1..10, Len(S) = n, NEW k \in 0..n, k < n, NEW a
  PROVE  Moved(S, k, a) \in Int /\ Moved(S, k + 1, a) = Moved(S, k, a) + Effect(S[k + 1], a)
<1> DEFINE x == [i \in 1..10 |-> EffectAt(S, i, k, a)]
           y == [i \in 1..10 |-> EffectAt(S, i, k + 1, a)]
<1>1. x \in [1..10 -> Int] /\ y \in [1..10 -> Int]
  BY EffectsInt, k + 1 \in 0..n, ZenonT(60)
<1>2. k + 1 \in 1..10 /\ x[k + 1] = 0
  BY DEF EffectAt
<1>3. \A i \in 1..10 : i # k + 1 => y[i] = x[i]
  BY DEF EffectAt
<1>4. y[k + 1] = Effect(S[k + 1], a)
  BY <1>2 DEF EffectAt
<1>5. Sum10(x) \in Int /\ Sum10(y) = Sum10(x) + y[k + 1]
  <2> HIDE DEF x, y
  <2> QED
    BY <1>1, <1>2, <1>3, SumStep
<1> QED
  BY <1>4, <1>5 DEF Moved

\* Where nothing has been moved, the sum is zero.
LEMMA MovedNothing ==
  ASSUME NEW S, NEW k, NEW a, \A i \in 1..10 : EffectAt(S, i, k, a) = 0
  PROVE  Moved(S, k, a) = 0
BY DEF Moved, Sum10

-----------------------------------------------------------------------------
\* Every call is a program of the kind described.
LEMMA Product == ASSUME NEW p \in Nat, NEW q \in Nat PROVE p * q \in Nat
OBVIOUS

LEMMA Amounts ==
  /\ \A p \in Price, q \in Quantity : p * q \in Nat
  /\ \A q \in Quantity : q \in Nat
  /\ Seed \in Nat /\ Seed * Grain \in Nat
<1>1. Seed \in Nat /\ Seed * Grain \in Nat
  BY Units, LedgerAssumption
<1> QED
  BY <1>1, Product, LedgerAssumption

LEMMA Accounts ==
  \A o \in Owner, c \in Currency, k \in Kind : <<o, c, k>> \in Account
BY DEF Account, Wallets

LEMMA EscrowCall ==
  ASSUME NEW call \in Call, call.name \in {"lockEscrow", "releaseEscrow"}
  PROVE  /\ call.user \in User /\ Currencies(call.side) \in Currency /\ Amount(call) \in Nat
         /\ Checking(call) \in Account /\ Escrow(call) \in Account
         /\ call.price \in Price /\ call.quantity \in Quantity
<1>1. /\ call.user \in User /\ call.side \in Side /\ call.price \in Price /\ call.quantity \in Quantity
  BY DEF Call
<1>2. Currencies(call.side) \in Currency /\ Amount(call) \in Nat
  BY <1>1, Amounts DEF Currencies, Amount, Side, Currency
<1>3. Checking(call) \in Account /\ Escrow(call) \in Account
  BY <1>1, <1>2, Accounts DEF Checking, Escrow, Owner, Kind
<1> QED
  BY <1>1, <1>2, <1>3

LEMMA EscrowPrograms ==
  ASSUME NEW call \in Call
  PROVE  /\ call.name = "lockEscrow" => WellFormed(LockEscrow(call))
         /\ call.name = "releaseEscrow" => WellFormed(ReleaseEscrow(call))
<1> DEFINE a == Checking(call)
           b == Escrow(call)
           n == Amount(call)
<1>1. SUFFICES ASSUME call.name \in {"lockEscrow", "releaseEscrow"}
               PROVE  WellFormed(LockEscrow(call)) /\ WellFormed(ReleaseEscrow(call))
  OBVIOUS
<1>2. a \in Account /\ b \in Account /\ n \in Nat
  BY <1>1, EscrowCall
<1> HIDE DEF a, b, n
<1>3. WellFormed(<<SelectForUpdate(a), Require(a, n), SelectForUpdate(b), Debit(a, n), Credit(b, n)>>)
  BY <1>2 DEF WellFormed, Statement, SelectForUpdate, Require, Debit, Credit
<1>4. WellFormed(<<SelectForUpdate(a), SelectForUpdate(b), Require(b, n), Debit(b, n), Credit(a, n)>>)
  BY <1>2 DEF WellFormed, Statement, SelectForUpdate, Require, Debit, Credit
<1> QED
  BY <1>3, <1>4 DEF LockEscrow, ReleaseEscrow, a, b, n

\* The legs of a settlement.
BuyerCash(call) == <<call.buyer, "USD", IF call.buyer = System THEN "CHECKING" ELSE "ESCROW">>
SellerCash(call) == <<call.seller, "USD", "CHECKING">>
SellerAsset(call) == <<call.seller, "BTC", IF call.seller = System THEN "CHECKING" ELSE "ESCROW">>
BuyerAsset(call) == <<call.buyer, "BTC", "CHECKING">>

LEMMA SettleCall ==
  ASSUME NEW call \in Call, call.name = "settleTrade"
  PROVE  /\ call.buyer \in Owner /\ call.seller \in Owner
         /\ call.price \in Price /\ call.quantity \in Quantity
         /\ call.price * call.quantity \in Nat /\ call.quantity \in Nat
         /\ {BuyerCash(call), SellerCash(call), SellerAsset(call), BuyerAsset(call)} \subseteq Account
<1>1. /\ call.buyer \in Owner /\ call.seller \in Owner
      /\ call.price \in Price /\ call.quantity \in Quantity
  BY DEF Call
<1>2. call.price * call.quantity \in Nat /\ call.quantity \in Nat
  BY <1>1, Amounts
<1>3. {BuyerCash(call), SellerCash(call), SellerAsset(call), BuyerAsset(call)} \subseteq Account
  BY <1>1, Accounts DEF BuyerCash, SellerCash, SellerAsset, BuyerAsset, Currency, Kind
<1> QED
  BY <1>1, <1>2, <1>3

LEMMA SettleProgram ==
  ASSUME NEW call \in Call, call.name = "settleTrade"
  PROVE  WellFormed(SettleTrade(call))
<1> DEFINE a == BuyerCash(call)
           b == SellerCash(call)
           x == SellerAsset(call)
           y == BuyerAsset(call)
           n == call.price * call.quantity
           m == call.quantity
           S == <<SelectForUpdate(a), SelectForUpdate(b), SelectForUpdate(x), SelectForUpdate(y),
                  Require(a, n), Require(x, m), Debit(a, n), Credit(b, n), Debit(x, m), Credit(y, m)>>
<1>1. a \in Account /\ b \in Account /\ x \in Account /\ y \in Account /\ n \in Nat /\ m \in Nat
  BY SettleCall
<1>2. SettleTrade(call) = S
  BY DEF SettleTrade, BuyerCash, SellerCash, SellerAsset, BuyerAsset
<1> HIDE DEF a, b, x, y, n, m
<1>3. S \in Seq(Statement) /\ Len(S) = 10
  BY <1>1 DEF Statement, SelectForUpdate, Require, Debit, Credit
<1>4. /\ S[1].op = "lock" /\ S[1].row = a /\ S[2].op = "lock" /\ S[2].row = b
      /\ S[3].op = "lock" /\ S[3].row = x /\ S[4].op = "lock" /\ S[4].row = y
      /\ S[5].op = "check" /\ S[5].row = a /\ S[6].op = "check" /\ S[6].row = x
      /\ S[7].op = "debit" /\ S[7].row = a /\ S[8].op = "credit" /\ S[8].row = b
      /\ S[9].op = "debit" /\ S[9].row = x /\ S[10].op = "credit" /\ S[10].row = y
  BY DEF SelectForUpdate, Require, Debit, Credit
<1> HIDE DEF S
<1>5. WellFormed(S)
  BY <1>3, <1>4 DEF WellFormed
<1> QED
  BY <1>2, <1>5

LEMMA RegisterProgram ==
  ASSUME NEW call \in Call, call.name = "register"
  PROVE  call.user \in User /\ WellFormed(Register(call))
<1>1. call.user \in User
  BY DEF Call
<1> DEFINE w == <<call.user, "USD", "CHECKING">>
<1>2. w \in Account /\ SystemUsd \in Account /\ Seed * Grain \in Nat
  BY <1>1, Accounts, Amounts, SystemWallet DEF Owner, Currency, Kind
<1>3. Register(call) = <<InsertWallets(call.user), Debit(SystemUsd, Seed * Grain), InsertCredit(w, Seed * Grain)>>
  BY DEF Register
<1>4. InsertWallets(call.user) = [op |-> "open", row |-> w, amount |-> Seed * Grain]
  BY DEF InsertWallets
<1> HIDE DEF w
<1>5. Register(call) \in Seq(Statement) /\ Len(Register(call)) = 3
  <2>1. PICK n \in Nat : n = Seed * Grain
    BY <1>2
  <2> QED
    BY <1>2, <1>3, <1>4, <2>1 DEF Statement, Debit, InsertCredit
<1>6. /\ Register(call)[1].op = "open" /\ Register(call)[1].row = w
      /\ Register(call)[2].op = "debit" /\ Register(call)[2].row = SystemUsd
      /\ Register(call)[3].op = "entry"
  BY <1>3, <1>4 DEF Debit, InsertCredit
<1>7. WellFormed(Register(call))
  BY <1>1, <1>5, <1>6 DEF WellFormed, w
<1> QED
  BY <1>1, <1>7

LEMMA Programs ==
  ASSUME NEW call \in Call PROVE WellFormed(Statements(call))
<1>1. CASE call.name = "lockEscrow"
  BY <1>1, EscrowPrograms DEF Statements
<1>2. CASE call.name = "releaseEscrow"
  BY <1>2, EscrowPrograms DEF Statements
<1>3. CASE call.name = "settleTrade"
  BY <1>3, SettleProgram DEF Statements
<1>4. CASE call.name = "register"
  BY <1>4, RegisterProgram DEF Statements
<1>5. call.name \in {"lockEscrow", "releaseEscrow", "settleTrade", "register"}
  BY DEF Call
<1> QED
  BY <1>1, <1>2, <1>3, <1>4, <1>5

-----------------------------------------------------------------------------
\* One statement further.
LEMMA Facing ==
  ASSUME NEW t \in Transaction, NEW b, NEW k \in Nat, FitsAt(t, b, k), t.todo # <<>>
  PROVE  LET S == Statements(t.call) IN
         /\ WellFormed(S) /\ Len(S) \in 1..10 /\ k \in 0..Len(S) /\ k < Len(S) /\ Ran(S, k, t, b)
         /\ Head(t.todo) = S[k + 1] /\ S[k + 1] \in Statement
         /\ \A u : u.call = t.call /\ u.id = t.id /\ u.todo = Tail(t.todo) /\ Ran(S, k + 1, u, b)
                  => Fits(u, b)
<1> DEFINE S == Statements(t.call)
<1>1. WellFormed(S) /\ S \in Seq(Statement) /\ Len(S) \in 1..10
  BY Programs DEF FitsAt, WellFormed
<1>2. /\ t.call \in Call /\ t.id \in 1..MaxCalls /\ k \in 0..Len(S) /\ Len(t.todo) = Len(S) - k
      /\ \A i \in 1..Len(t.todo) : t.todo[i] = S[k + i]
      /\ Ran(S, k, t, b)
  BY DEF FitsAt
<1>3. t.todo \in Seq(Statement)
  BY DEF Transaction
<1> HIDE DEF S
<1>4. Len(t.todo) \in Nat /\ Len(t.todo) > 0
  BY <1>3, EmptySeq, LenProperties
<1>5. k < Len(S) /\ Head(t.todo) = S[k + 1]
  BY <1>1, <1>2, <1>3, <1>4
<1>6. S[k + 1] \in Statement
  BY <1>1, <1>2, <1>5, ElementOfSeq
<1>7. Len(Tail(t.todo)) = Len(S) - (k + 1)
  BY <1>1, <1>2, <1>3, <1>4
<1>8. \A i \in 1..Len(Tail(t.todo)) : Tail(t.todo)[i] = S[(k + 1) + i]
  <2> TAKE i \in 1..Len(Tail(t.todo))
  <2>1. i + 1 \in 1..Len(t.todo) /\ i \in Nat
    BY <1>1, <1>2, <1>4, <1>7
  <2>2. Tail(t.todo)[i] = t.todo[i + 1]
    BY <1>3, <1>4
  <2>3. t.todo[i + 1] = S[k + (i + 1)]
    BY <1>2, <2>1
  <2>4. k + (i + 1) = (k + 1) + i
    BY <2>1
  <2> QED
    BY <2>2, <2>3, <2>4
<1>9. ASSUME NEW u, u.call = t.call, u.id = t.id, u.todo = Tail(t.todo), Ran(S, k + 1, u, b)
      PROVE  Fits(u, b)
  <2>1. k + 1 \in Nat /\ k + 1 \in 0..Len(S)
    BY <1>1, <1>2, <1>5
  <2>2. FitsAt(u, b, k + 1)
    BY <1>2, <1>7, <1>8, <1>9, <2>1 DEF FitsAt, S
  <2> QED
    BY <2>1, <2>2 DEF Fits
<1> QED
  BY <1>1, <1>2, <1>5, <1>6, <1>9 DEF S

LEMMA MovedBy ==
  ASSUME NEW S, WellFormed(S), NEW k \in 0..Len(S), k < Len(S), NEW a
  PROVE  Moved(S, k, a) \in Int /\ Moved(S, k + 1, a) = Moved(S, k, a) + Effect(S[k + 1], a)
<1>1. S \in Seq(Statement) /\ Len(S) \in 1..10
  BY DEF WellFormed
<1> QED
  BY <1>1, MovedStep

LEMMA MovedInt ==
  ASSUME NEW S, WellFormed(S), NEW k \in 0..Len(S), NEW a
  PROVE  Moved(S, k, a) \in Int
<1>1. S \in Seq(Statement) /\ Len(S) \in 1..10
  BY DEF WellFormed
<1> DEFINE x == [i \in 1..10 |-> EffectAt(S, i, k, a)]
<1>2. PICK n \in 1..10 : Len(S) = n
  BY <1>1
<1>3. x \in [1..10 -> Int]
  BY <1>1, <1>2, EffectsInt, ZenonT(60)
<1> HIDE DEF x
<1>4. Sum10(x) \in Int
  BY <1>3, SumInt
<1> QED
  BY <1>4 DEF Moved, x

\* A statement that moves nothing leaves the sums alone.
LEMMA MovedStill ==
  ASSUME NEW S, WellFormed(S), NEW k \in 0..Len(S), k < Len(S), NEW a,
         S[k + 1].op \notin {"debit", "credit"} \/ S[k + 1].row # a
  PROVE  Moved(S, k, a) \in Int /\ Moved(S, k + 1, a) = Moved(S, k, a)
<1>1. Effect(S[k + 1], a) = 0
  BY DEF Effect
<1> QED
  BY <1>1, MovedBy

LEMMA RanFacts ==
  ASSUME NEW t \in Transaction, NEW b \in Partial, NEW S, WellFormed(S),
         NEW k \in 0..Len(S), k < Len(S), Ran(S, k, t, b)
  PROVE  /\ Len(S) \in 1..10 /\ k \in Nat /\ 1..(k + 1) = (1..k) \cup {k + 1} /\ S[k + 1] \in Statement
         /\ t.locks \subseteq Account /\ t.seen \in Partial /\ t.work \in Partial
         /\ \A a \in DOMAIN b : b[a] \in Nat /\ View(t, b, a) \in Nat
<1>1. Len(S) \in 1..10 /\ S \in Seq(Statement)
  BY DEF WellFormed
<1>2. k \in Nat /\ 1..(k + 1) = (1..k) \cup {k + 1}
  BY <1>1
<1>3. S[k + 1] \in Statement
  BY <1>1, ElementOfSeq
<1>4. t.locks \subseteq Account /\ t.seen \in Partial /\ t.work \in Partial
  BY DEF Transaction
<1>5. \A a \in DOMAIN b : b[a] \in Nat /\ View(t, b, a) \in Nat
  BY <1>4, PartialIs DEF View
<1> QED
  BY <1>1, <1>2, <1>3, <1>4, <1>5

\* A check, or an entry of its own.
LEMMA RanRead ==
  ASSUME NEW t \in Transaction, NEW b \in Partial, NEW S, WellFormed(S),
         NEW k \in 0..Len(S), k < Len(S), Ran(S, k, t, b), NEW u,
         u.locks = t.locks, u.seen = t.seen, u.work = t.work,
         \/ S[k + 1].op = "check" /\ Covers(t.seen[S[k + 1].row], S[k + 1].amount)
         \/ S[k + 1].op = "entry"
  PROVE  Ran(S, k + 1, u, b)
<1>1. /\ Len(S) \in 1..10 /\ k \in Nat /\ 1..(k + 1) = (1..k) \cup {k + 1}
      /\ \A a \in DOMAIN b : b[a] \in Nat
  BY RanFacts
<1>2. S[k + 1].op = "check" => S[k + 1].row \in DOMAIN t.seen
  <2>1. SUFFICES ASSUME S[k + 1].op = "check" PROVE S[k + 1].row \in DOMAIN t.seen
    OBVIOUS
  <2>2. k + 1 \in 1..Len(S) /\ (k + 1) - 1 = k
    BY <1>1
  <2>3. PICK j \in 1..k : S[j].op = "lock" /\ S[j].row = S[k + 1].row
    BY <2>1, <2>2 DEF WellFormed
  <2> QED
    BY <2>3 DEF Ran
<1>3. \A i \in 1..(k + 1) :
         /\ S[i].op \in {"lock", "debit", "credit"} => S[i].row \in u.locks /\ S[i].row \in DOMAIN b
         /\ S[i].op = "lock" => S[i].row \in DOMAIN u.seen
         /\ S[i].op = "check" => S[i].row \in DOMAIN u.seen /\ Covers(u.seen[S[i].row], S[i].amount)
         /\ S[i].op = "open" => \A a \in Wallets(S[i].row[1]) :
                                   /\ a \in DOMAIN u.work /\ a \notin DOMAIN b
                                   /\ u.work[a] = OpeningBalance(S[i], a)
  BY <1>1, <1>2 DEF Ran
<1>4. \A a \in DOMAIN u.seen : a \in u.locks /\ a \in DOMAIN b /\ u.seen[a] = b[a]
  BY DEF Ran
<1>5. \A a \in DOMAIN u.work :
         /\ a \in u.locks
         /\ a \in DOMAIN b \/ \E i \in 1..(k + 1) : S[i].op = "open" /\ a \in Wallets(S[i].row[1])
  BY <1>1 DEF Ran
<1>6. \A a \in DOMAIN b : View(u, b, a) = b[a] + Moved(S, k + 1, a)
  BY MovedStill DEF Ran, View
<1> QED
  BY <1>3, <1>4, <1>5, <1>6 DEF Ran

\* SELECT ... FOR UPDATE: nothing has been written yet, so what is seen is committed.
LEMMA RanLock ==
  ASSUME NEW t \in Transaction, NEW b \in Partial, NEW S, WellFormed(S),
         NEW k \in 0..Len(S), k < Len(S), Ran(S, k, t, b), NEW u,
         S[k + 1].op = "lock", S[k + 1].row \in DOMAIN b,
         u.locks = t.locks \cup {S[k + 1].row}, u.work = t.work,
         u.seen = Overlay(Version(S[k + 1].row, View(t, b, S[k + 1].row)), t.seen)
  PROVE  u.seen \in Partial /\ Ran(S, k + 1, u, b)
<1> DEFINE r == S[k + 1].row
<1>1. /\ Len(S) \in 1..10 /\ k \in Nat /\ 1..(k + 1) = (1..k) \cup {k + 1} /\ S[k + 1] \in Statement
      /\ \A a \in DOMAIN b : b[a] \in Nat /\ View(t, b, a) \in Nat
      /\ t.seen \in Partial
  BY RanFacts
<1>2. r \in Account /\ View(t, b, r) \in Nat
  BY <1>1 DEF Statement
<1>3. View(t, b, r) = b[r]
  <2>1. \A i \in 1..10 : EffectAt(S, i, k, r) = 0
    <3> TAKE i \in 1..10
    <3>1. CASE i <= k
      <4>1. i \in 1..((k + 1) - 1) /\ k + 1 \in 1..Len(S)
        BY <1>1, <3>1
      <4>2. S[i].op \in {"lock", "check"}
        BY <4>1 DEF WellFormed
      <4> QED
        BY <3>1, <4>2 DEF EffectAt, Effect
    <3>2. CASE ~(i <= k)
      BY <3>2 DEF EffectAt
    <3> QED
      BY <3>1, <3>2
  <2>2. Moved(S, k, r) = 0
    BY <2>1, MovedNothing
  <2> QED
    BY <1>1, <2>2 DEF Ran
<1>4. /\ u.seen \in Partial /\ DOMAIN u.seen = {r} \cup DOMAIN t.seen
      /\ u.seen[r] = b[r]
      /\ \A a \in DOMAIN t.seen \ {r} : u.seen[a] = t.seen[a]
  <2>1. u.seen = Overlay(Version(r, b[r]), t.seen)
    BY <1>3
  <2>2. b[r] \in Nat /\ r \in Account /\ t.seen \in Partial
    BY <1>1, <1>2
  <2> HIDE DEF r
  <2>3. u.seen \in Partial
    BY <2>1, <2>2, WithVersion
  <2> QED
    BY <2>1, <2>3 DEF Overlay, Version
<1>5. \A a \in DOMAIN u.seen : a \in u.locks /\ a \in DOMAIN b /\ u.seen[a] = b[a]
  BY <1>4 DEF Ran
<1>6. \A i \in 1..(k + 1) :
         /\ S[i].op \in {"lock", "debit", "credit"} => S[i].row \in u.locks /\ S[i].row \in DOMAIN b
         /\ S[i].op = "lock" => S[i].row \in DOMAIN u.seen
         /\ S[i].op = "check" => S[i].row \in DOMAIN u.seen /\ Covers(u.seen[S[i].row], S[i].amount)
         /\ S[i].op = "open" => \A a \in Wallets(S[i].row[1]) :
                                   /\ a \in DOMAIN u.work /\ a \notin DOMAIN b
                                   /\ u.work[a] = OpeningBalance(S[i], a)
  <2>1. CASE k + 1 \in 1..(k + 1)
    <3> TAKE i \in 1..(k + 1)
    <3>1. CASE i = k + 1
      BY <3>1, <1>4
    <3>2. CASE i \in 1..k
      <4>1. S[i].op = "check" => S[i].row \in DOMAIN u.seen /\ Covers(u.seen[S[i].row], S[i].amount)
        <5>1. S[i].op = "check" => S[i].row \in DOMAIN t.seen /\ Covers(t.seen[S[i].row], S[i].amount)
          BY <3>2 DEF Ran
        <5>2. \A a \in DOMAIN t.seen : a \in DOMAIN u.seen /\ t.seen[a] = b[a] /\ u.seen[a] = b[a]
          BY <1>4, <1>5 DEF Ran
        <5> QED
          BY <5>1, <5>2
      <4> QED
        BY <3>2, <1>4, <4>1 DEF Ran
    <3> QED
      BY <1>1, <3>1, <3>2
  <2> QED
    BY <1>1, <2>1
<1>7. \A a \in DOMAIN u.work :
         /\ a \in u.locks
         /\ a \in DOMAIN b \/ \E i \in 1..(k + 1) : S[i].op = "open" /\ a \in Wallets(S[i].row[1])
  BY <1>1 DEF Ran
<1>8. \A a \in DOMAIN b : View(u, b, a) = b[a] + Moved(S, k + 1, a)
  BY MovedStill DEF Ran, View
<1> QED
  BY <1>4, <1>5, <1>6, <1>7, <1>8 DEF Ran

\* A row to be updated exists: it has been locked, or it is the exchange's.
LEMMA RowExists ==
  ASSUME NEW t \in Transaction, NEW b \in Partial, DOMAIN Opening \subseteq DOMAIN b,
         NEW S, WellFormed(S), NEW k \in 0..Len(S), k < Len(S), Ran(S, k, t, b),
         S[k + 1].op \in {"debit", "credit"}
  PROVE  S[k + 1].row \in DOMAIN b
<1>1. k + 1 \in 1..Len(S) /\ (k + 1) - 1 = k
  BY RanFacts
<1>2. S[k + 1].row = SystemUsd \/ \E j \in 1..k : S[j].op = "lock" /\ S[j].row = S[k + 1].row
  BY <1>1, SMTT(60) DEF WellFormed
<1> QED
  BY <1>2, SystemWallet DEF Ran

\* UPDATE accounts SET balance = balance +- $1.
LEMMA RanUpdate ==
  ASSUME NEW t \in Transaction, NEW b \in Partial, DOMAIN Opening \subseteq DOMAIN b,
         NEW S, WellFormed(S), NEW k \in 0..Len(S), k < Len(S), Ran(S, k, t, b), NEW u,
         S[k + 1].op \in {"debit", "credit"}, NEW n \in Nat,
         n = View(t, b, S[k + 1].row) + Effect(S[k + 1], S[k + 1].row),
         u.locks = t.locks \cup {S[k + 1].row}, u.seen = t.seen,
         u.work = Overlay(Version(S[k + 1].row, n), t.work)
  PROVE  u.work \in Partial /\ Ran(S, k + 1, u, b)
<1> DEFINE r == S[k + 1].row
<1>1. /\ Len(S) \in 1..10 /\ S \in Seq(Statement)
      /\ k \in Nat /\ 1..(k + 1) = (1..k) \cup {k + 1} /\ S[k + 1] \in Statement
      /\ \A a \in DOMAIN b : b[a] \in Nat /\ View(t, b, a) \in Nat
      /\ t.work \in Partial
  BY RanFacts DEF WellFormed
<1>2. r \in Account
  BY <1>1 DEF Statement
<1>3. r \in DOMAIN b
  BY RowExists
<1>4. /\ u.work \in Partial /\ DOMAIN u.work = {r} \cup DOMAIN t.work
      /\ u.work[r] = n
      /\ \A a \in DOMAIN t.work \ {r} : u.work[a] = t.work[a]
  <2>1. u.work = Overlay(Version(r, n), t.work)
    OBVIOUS
  <2> HIDE DEF r
  <2>2. u.work \in Partial
    BY <1>1, <1>2, <2>1, WithVersion
  <2> QED
    BY <2>1, <2>2 DEF Overlay, Version
<1>5. \A a \in DOMAIN u.seen : a \in u.locks /\ a \in DOMAIN b /\ u.seen[a] = b[a]
  BY DEF Ran
<1>6. \A i \in 1..(k + 1) :
         /\ S[i].op \in {"lock", "debit", "credit"} => S[i].row \in u.locks /\ S[i].row \in DOMAIN b
         /\ S[i].op = "lock" => S[i].row \in DOMAIN u.seen
         /\ S[i].op = "check" => S[i].row \in DOMAIN u.seen /\ Covers(u.seen[S[i].row], S[i].amount)
         /\ S[i].op = "open" => \A a \in Wallets(S[i].row[1]) :
                                   /\ a \in DOMAIN u.work /\ a \notin DOMAIN b
                                   /\ u.work[a] = OpeningBalance(S[i], a)
  <2> TAKE i \in 1..(k + 1)
  <2>1. CASE i = k + 1
    BY <2>1, <1>3
  <2>2. CASE i \in 1..k
    <3>1. ASSUME S[i].op = "open", NEW a \in Wallets(S[i].row[1])
          PROVE  a \in DOMAIN u.work /\ a \notin DOMAIN b /\ u.work[a] = OpeningBalance(S[i], a)
      <4>1. a \in DOMAIN t.work /\ a \notin DOMAIN b /\ t.work[a] = OpeningBalance(S[i], a)
        BY <2>2, <3>1 DEF Ran
      <4>2. a # r
        BY <1>3, <4>1
      <4> QED
        BY <1>4, <4>1, <4>2
    <3> QED
      BY <2>2, <3>1 DEF Ran
  <2> QED
    BY <1>1, <2>1, <2>2
<1>7. \A a \in DOMAIN u.work :
         /\ a \in u.locks
         /\ a \in DOMAIN b \/ \E i \in 1..(k + 1) : S[i].op = "open" /\ a \in Wallets(S[i].row[1])
  <2> TAKE a \in DOMAIN u.work
  <2>1. CASE a = r
    BY <1>3, <1>4, <2>1
  <2>2. CASE a \in DOMAIN t.work
    BY <1>1, <2>2 DEF Ran
  <2> QED
    BY <1>4, <2>1, <2>2
<1>8. \A a \in DOMAIN b : View(u, b, a) = b[a] + Moved(S, k + 1, a)
  <2> TAKE a \in DOMAIN b
  <2>1. CASE a = r
    <3>1. Moved(S, k, r) \in Int /\ Moved(S, k + 1, r) = Moved(S, k, r) + Effect(S[k + 1], r)
      BY MovedBy
    <3>2. View(t, b, r) = b[r] + Moved(S, k, r) /\ b[r] \in Nat
      BY <1>1, <1>3, SMTT(60) DEF Ran
    <3>3. Effect(S[k + 1], r) \in Int
      BY <1>1, EffectInt
    <3>4. View(u, b, r) = n
      BY <1>4 DEF View
    <3>5. n = (b[r] + Moved(S, k, r)) + Effect(S[k + 1], r)
      BY <1>3, <3>2
    <3> HIDE DEF r
    <3> QED
      BY <2>1, <3>1, <3>2, <3>3, <3>4, <3>5
  <2>2. CASE a # r
    <3>1. Moved(S, k + 1, a) = Moved(S, k, a)
      BY <2>2, MovedStill
    <3>2. View(t, b, a) = b[a] + Moved(S, k, a)
      BY SMTT(60) DEF Ran
    <3>3. View(u, b, a) = View(t, b, a)
      BY <1>4, <2>2 DEF View
    <3> QED
      BY <3>1, <3>2, <3>3
  <2> QED
    BY <2>1, <2>2
<1> QED
  BY <1>3, <1>4, <1>5, <1>6, <1>7, <1>8 DEF Ran

\* INSERT INTO accounts: the first statement of a registration.
LEMMA RanOpen ==
  ASSUME NEW t \in Transaction, NEW b \in Partial, NEW S, WellFormed(S),
         NEW k \in 0..Len(S), k < Len(S), Ran(S, k, t, b), NEW u,
         S[k + 1].op = "open", Wallets(S[k + 1].row[1]) \cap DOMAIN b = {},
         u.locks = t.locks \cup Wallets(S[k + 1].row[1]), u.seen = t.seen,
         u.work = Overlay([a \in Wallets(S[k + 1].row[1]) |-> OpeningBalance(S[k + 1], a)], t.work)
  PROVE  /\ u.work \in Partial /\ Wallets(S[k + 1].row[1]) \subseteq Account
         /\ Ran(S, k + 1, u, b)
<1> DEFINE s == S[k + 1]
           W == Wallets(s.row[1])
           f == [a \in W |-> OpeningBalance(s, a)]
<1>1. /\ Len(S) \in 1..10 /\ k \in Nat /\ 1..(k + 1) = (1..k) \cup {k + 1} /\ s \in Statement
      /\ \A a \in DOMAIN b : b[a] \in Nat /\ View(t, b, a) \in Nat
      /\ t.work \in Partial
  BY RanFacts
<1>2. k = 0 /\ W \subseteq Account
  <2>1. k + 1 \in 1..Len(S)
    BY <1>1
  <2>2. k + 1 = 1 /\ \E v \in User : s.row = <<v, "USD", "CHECKING">>
    BY <2>1 DEF WellFormed
  <2>3. PICK v \in User : s.row = <<v, "USD", "CHECKING">>
    BY <2>2
  <2>4. W = Wallets(v)
    BY <2>3
  <2> QED
    BY <1>1, <2>2, <2>4, SystemWallet
<1>3. f \in Partial /\ DOMAIN f = W
  <2>1. s.amount \in Nat
    BY <1>1 DEF Statement
  <2>2. Rounded(s.amount) \in Nat
    BY <2>1, GivenNat
  <2>3. f \in [W -> Nat]
    BY <2>2 DEF OpeningBalance
  <2> QED
    BY <1>2, <2>3 DEF Partial
<1>4. /\ u.work \in Partial /\ DOMAIN u.work = W \cup DOMAIN t.work
      /\ \A a \in W : u.work[a] = OpeningBalance(s, a)
      /\ \A a \in DOMAIN t.work \ W : u.work[a] = t.work[a]
  <2>1. u.work = Overlay(f, t.work)
    OBVIOUS
  <2> HIDE DEF W
  <2>2. \A a \in W : f[a] = OpeningBalance(s, a)
    OBVIOUS
  <2> HIDE DEF f
  <2>3. /\ Overlay(f, t.work) \in Partial /\ DOMAIN Overlay(f, t.work) = DOMAIN f \cup DOMAIN t.work
        /\ \A a \in DOMAIN f : Overlay(f, t.work)[a] = f[a]
        /\ \A a \in DOMAIN t.work \ DOMAIN f : Overlay(f, t.work)[a] = t.work[a]
    BY <1>1, <1>3, OverPartial
  <2> QED
    BY <1>3, <2>1, <2>2, <2>3
<1>5. \A a \in DOMAIN u.seen : a \in u.locks /\ a \in DOMAIN b /\ u.seen[a] = b[a]
  BY DEF Ran
<1>6. \A i \in 1..(k + 1) :
         /\ S[i].op \in {"lock", "debit", "credit"} => S[i].row \in u.locks /\ S[i].row \in DOMAIN b
         /\ S[i].op = "lock" => S[i].row \in DOMAIN u.seen
         /\ S[i].op = "check" => S[i].row \in DOMAIN u.seen /\ Covers(u.seen[S[i].row], S[i].amount)
         /\ S[i].op = "open" => \A a \in Wallets(S[i].row[1]) :
                                   /\ a \in DOMAIN u.work /\ a \notin DOMAIN b
                                   /\ u.work[a] = OpeningBalance(S[i], a)
  <2> TAKE i \in 1..(k + 1)
  <2>1. i = k + 1
    BY <1>2
  <2> QED
    BY <2>1, <1>4
<1>7. \A a \in DOMAIN u.work :
         /\ a \in u.locks
         /\ a \in DOMAIN b \/ \E i \in 1..(k + 1) : S[i].op = "open" /\ a \in Wallets(S[i].row[1])
  <2> TAKE a \in DOMAIN u.work
  <2>1. CASE a \in W
    BY <1>1, <2>1
  <2>2. CASE a \in DOMAIN t.work
    BY <1>1, <2>2 DEF Ran
  <2> QED
    BY <1>4, <2>1, <2>2
<1>8. \A a \in DOMAIN b : View(u, b, a) = b[a] + Moved(S, k + 1, a)
  <2> TAKE a \in DOMAIN b
  <2>1. Moved(S, k + 1, a) = Moved(S, k, a)
    BY MovedStill
  <2>2. View(u, b, a) = View(t, b, a)
    BY <1>4 DEF View
  <2> QED
    BY <2>1, <2>2 DEF Ran
<1> QED
  BY <1>2, <1>4, <1>5, <1>6, <1>7, <1>8 DEF Ran

-----------------------------------------------------------------------------
\* Beginning, and the commits of others.
LEMMA MovedZero ==
  ASSUME NEW S, NEW a PROVE Moved(S, 0, a) = 0
BY MovedNothing DEF EffectAt

LEMMA FitsBegin ==
  ASSUME NEW t \in Transaction, NEW b \in Partial, t.call \in Call, t.id \in 1..MaxCalls,
         t.todo = Statements(t.call), t.locks = {}, t.seen = <<>>, t.work = <<>>
  PROVE  Fits(t, b)
<1> DEFINE S == Statements(t.call)
<1>1. Len(S) \in 1..10 /\ S \in Seq(Statement)
  BY Programs DEF WellFormed
<1>2. \A a \in DOMAIN b : b[a] \in Nat /\ View(t, b, a) = b[a]
  BY PartialIs, EmptyPartial DEF View
<1>3. Ran(S, 0, t, b)
  <2>1. DOMAIN t.seen = {} /\ DOMAIN t.work = {} /\ 1..0 = {}
    BY EmptyPartial
  <2>2. \A a \in DOMAIN b : View(t, b, a) = b[a] + Moved(S, 0, a)
    BY <1>2, MovedZero
  <2> QED
    BY <2>1, <2>2 DEF Ran
<1>4. FitsAt(t, b, 0)
  BY <1>1, <1>3 DEF FitsAt
<1> QED
  BY <1>4 DEF Fits

\* A row that does not exist has not been moved to or from.
LEMMA MovedOutside ==
  ASSUME NEW S, WellFormed(S), NEW k \in 0..Len(S), NEW t, NEW b, Ran(S, k, t, b),
         NEW a, a \notin DOMAIN b
  PROVE  Moved(S, k, a) = 0
<1>1. Len(S) \in 1..10
  BY DEF WellFormed
<1>2. ASSUME NEW i \in 1..10 PROVE EffectAt(S, i, k, a) = 0
  <2>1. CASE i <= k
    <3>1. i \in 1..k
      BY <1>1, <2>1
    <3>2. S[i].op \in {"debit", "credit"} => S[i].row # a
      BY <3>1 DEF Ran
    <3> QED
      BY <2>1, <3>2 DEF EffectAt, Effect
  <2>2. CASE ~(i <= k)
    BY <2>2 DEF EffectAt
  <2> QED
    BY <2>1, <2>2
<1> QED
  BY <1>2, MovedNothing

\* A commit publishes only rows that its transaction has locked.
LEMMA OthersCommit ==
  ASSUME NEW t \in Transaction, NEW u \in Transaction, NEW b \in Partial,
         DOMAIN u.work \subseteq u.locks, t.locks \cap u.locks = {}, Fits(t, b)
  PROVE  Fits(t, Overlay(u.work, b))
<1> DEFINE S == Statements(t.call)
           v == Overlay(u.work, b)
<1>1. PICK k \in Nat : FitsAt(t, b, k)
  BY DEF Fits
<1>2. WellFormed(S) /\ k \in 0..Len(S) /\ Ran(S, k, t, b)
  BY <1>1, Programs DEF FitsAt
<1>3. /\ DOMAIN v = DOMAIN u.work \cup DOMAIN b
      /\ \A a \in DOMAIN b : a \notin DOMAIN u.work => v[a] = b[a]
  BY DEF Overlay
<1>4. \A a \in t.locks : a \notin DOMAIN u.work
  OBVIOUS
<1> HIDE DEF S, v
<1>5. \A i \in 1..k :
         /\ S[i].op \in {"lock", "debit", "credit"} => S[i].row \in t.locks /\ S[i].row \in DOMAIN v
         /\ S[i].op = "lock" => S[i].row \in DOMAIN t.seen
         /\ S[i].op = "check" => S[i].row \in DOMAIN t.seen /\ Covers(t.seen[S[i].row], S[i].amount)
         /\ S[i].op = "open" => \A a \in Wallets(S[i].row[1]) :
                                   /\ a \in DOMAIN t.work /\ a \notin DOMAIN v
                                   /\ t.work[a] = OpeningBalance(S[i], a)
  BY <1>2, <1>3, <1>4 DEF Ran
<1>6. \A a \in DOMAIN t.seen : a \in t.locks /\ a \in DOMAIN v /\ t.seen[a] = v[a]
  BY <1>2, <1>3, <1>4 DEF Ran
<1>7. \A a \in DOMAIN t.work :
         /\ a \in t.locks
         /\ a \in DOMAIN v \/ \E i \in 1..k : S[i].op = "open" /\ a \in Wallets(S[i].row[1])
  BY <1>2, <1>3 DEF Ran
<1>8. ASSUME NEW a \in DOMAIN v PROVE View(t, v, a) = v[a] + Moved(S, k, a)
  <2>1. CASE a \in DOMAIN t.work
    BY <1>2, <1>3, <1>4, <1>7, <2>1 DEF Ran, View
  <2>2. CASE a \notin DOMAIN t.work
    <3>1. u.work \in Partial
      BY DEF Transaction
    <3>2. v[a] \in Nat
      BY <3>1, OverPartial, PartialIs DEF v
    <3>3. Moved(S, k, a) = 0
      <4>1. CASE a \in DOMAIN b
        <5>1. b[a] \in Nat /\ b[a] = b[a] + Moved(S, k, a)
          BY <1>2, <2>2, <4>1, PartialIs DEF Ran, View
        <5>2. Moved(S, k, a) \in Int
          BY <1>2, MovedInt
        <5> QED
          BY <5>1, <5>2
      <4>2. CASE a \notin DOMAIN b
        BY <1>2, <4>2, MovedOutside
      <4> QED
        BY <4>1, <4>2
    <3> QED
      BY <2>2, <3>2, <3>3 DEF View
  <2> QED
    BY <2>1, <2>2
<1>9. Ran(S, k, t, v)
  BY <1>5, <1>6, <1>7, <1>8 DEF Ran
<1>10. FitsAt(t, v, k)
  BY <1>1, <1>9 DEF FitsAt, S
<1> QED
  BY <1>10 DEF Fits, v

-----------------------------------------------------------------------------
\* The steps.
LEMMA IdleTransaction == Idle \in Transaction
BY EmptyPartial, LedgerAssumption DEF Idle, Transaction

LEMMA EntryTyped ==
  ASSUME NEW i \in 1..MaxCalls, NEW s \in Statement, NEW type \in {"DEBIT", "CREDIT"}
  PROVE  [tx |-> <<i, s.row[2]>>, account |-> s.row, type |-> type,
          amount |-> Rounded(s.amount), asked |-> s.amount] \in LedgerEntry
<1>1. s.row \in Account /\ s.amount \in Nat
  BY DEF Statement
<1>2. s.row[2] \in Currency
  BY <1>1 DEF Account, Wallets
<1>3. Rounded(s.amount) \in Nat
  BY <1>1, GivenNat
<1> QED
  BY <1>1, <1>2, <1>3 DEF LedgerEntry

\* A step of one transaction that commits nothing.
LEMMA OneTransaction ==
  ASSUME LedgerInv, NEW c \in Conn, NEW u \in Transaction, tx' = [tx EXCEPT ![c] = u],
         u = Idle \/ Fits(u, balance),
         \A d \in Conn : d # c => u.locks \cap tx[d].locks = {},
         UNCHANGED <<balance, entries, alarms>>, calls' \in 0..MaxCalls, faults' \in 0..MaxFaults
  PROVE  LedgerInv'
<1>1. tx' \in [Conn -> Transaction] /\ tx'[c] = u /\ \A d \in Conn : d # c => tx'[d] = tx[d]
  BY DEF LedgerInv
<1>2. \A d \in Conn : tx'[d] = Idle \/ Fits(tx'[d], balance)
  <2> TAKE d \in Conn
  <2>1. CASE d = c
    BY <1>1, <2>1
  <2>2. CASE d # c
    BY <1>1, <2>2 DEF LedgerInv
  <2> QED
    BY <2>1, <2>2
<1>3. \A d, e \in Conn : d # e => tx'[d].locks \cap tx'[e].locks = {}
  <2> TAKE d, e \in Conn
  <2>1. CASE d = c
    BY <1>1, <2>1
  <2>2. CASE e = c
    BY <1>1, <2>2
  <2>3. CASE d # c /\ e # c
    BY <1>1, <2>3 DEF LedgerInv
  <2> QED
    BY <2>1, <2>2, <2>3
<1> QED
  BY <1>1, <1>2, <1>3 DEF LedgerInv

LEMMA RollbackStep ==
  ASSUME LedgerInv, NEW c \in Conn, Rollback(c), UNCHANGED alarms,
         calls' \in 0..MaxCalls, faults' \in 0..MaxFaults
  PROVE  LedgerInv'
<1>1. Idle.locks = {}
  BY DEF Idle
<1> QED
  BY <1>1, IdleTransaction, OneTransaction DEF Rollback

LEMMA BeginStep ==
  ASSUME LedgerInv, NEW c \in Conn, NEW call \in Call, Begin(c, call)
  PROVE  LedgerInv'
<1> DEFINE u == [Idle EXCEPT !.call = call, !.id = calls + 1, !.todo = Statements(call)]
<1>1. /\ u.call = call /\ u.id = calls + 1 /\ u.todo = Statements(call)
      /\ u.locks = {} /\ u.seen = <<>> /\ u.work = <<>> /\ u.wrote = {}
  BY DEF Idle
<1>2. calls' = calls + 1 /\ calls' \in 0..MaxCalls /\ calls + 1 \in 1..MaxCalls
  BY LedgerAssumption DEF Begin, LedgerInv
<1>3. Statements(call) \in Seq(Statement)
  BY Programs DEF WellFormed
<1>4. u \in Transaction
  BY <1>2, <1>3, EmptyPartial DEF Transaction, Idle
<1>5. tx' = [tx EXCEPT ![c] = u] /\ UNCHANGED <<balance, entries, alarms, faults>>
  BY DEF Begin
<1>6. balance \in Partial /\ faults' \in 0..MaxFaults
  BY <1>5 DEF LedgerInv
<1> HIDE DEF u
<1>7. Fits(u, balance)
  BY <1>1, <1>2, <1>4, <1>6, FitsBegin
<1> QED
  BY <1>1, <1>2, <1>4, <1>5, <1>6, <1>7, OneTransaction

\* A transaction that has something to do.
LEMMA Working ==
  ASSUME LedgerInv, NEW c \in Conn, tx[c].todo # <<>>
  PROVE  /\ tx[c] \in Transaction /\ balance \in Partial /\ DOMAIN Opening \subseteq DOMAIN balance
         /\ Fits(tx[c], balance) /\ calls \in 0..MaxCalls /\ faults \in 0..MaxFaults
BY DEF LedgerInv, Idle

LEMMA TailTyped ==
  ASSUME NEW q \in Seq(Statement), q # <<>> PROVE Tail(q) \in Seq(Statement) /\ Head(q) \in Statement
OBVIOUS

LEMMA LockStep ==
  ASSUME LedgerInv, NEW c \in Conn, GetAccountLocked(c)
  PROVE  LedgerInv'
<1> DEFINE t == tx[c]
           a == Now(c).row
           u == [t EXCEPT !.locks = @ \cup {a}, !.seen = Overlay(Version(a, Visible(c, a)), @),
                          !.todo = Tail(@)]
<1>1. t.todo # <<>> /\ Now(c).op = "lock" /\ Now(c) = Head(t.todo)
  BY DEF GetAccountLocked, Running, Now
<1>2. /\ t \in Transaction /\ balance \in Partial /\ calls' \in 0..MaxCalls /\ faults' \in 0..MaxFaults
      /\ UNCHANGED <<alarms, calls, faults>> /\ Fits(t, balance)
  BY <1>1, Working DEF GetAccountLocked
<1>3. CASE a \notin DOMAIN balance
  <2>1. Rollback(c)
    BY <1>3 DEF GetAccountLocked
  <2> QED
    BY <1>2, <2>1, RollbackStep
<1>4. CASE a \in DOMAIN balance
  <2>1. tx' = [tx EXCEPT ![c] = u] /\ UNCHANGED <<balance, entries>>
    BY <1>4 DEF GetAccountLocked, LedgerInv
  <2>2. PICK k \in Nat : FitsAt(t, balance, k)
    BY <1>2 DEF Fits
  <2> DEFINE S == Statements(t.call)
  <2>3. /\ WellFormed(S) /\ k \in 0..Len(S) /\ k < Len(S) /\ Ran(S, k, t, balance)
        /\ Head(t.todo) = S[k + 1] /\ S[k + 1] \in Statement
        /\ u.call = t.call /\ u.id = t.id /\ u.todo = Tail(t.todo) /\ Ran(S, k + 1, u, balance)
             => Fits(u, balance)
    <3> HIDE DEF u
    <3> QED
      BY <1>1, <1>2, <2>2, Facing
  <2>4. /\ u.call = t.call /\ u.id = t.id /\ u.todo = Tail(t.todo) /\ u.locks = t.locks \cup {a}
        /\ u.work = t.work /\ u.wrote = t.wrote /\ u.seen = Overlay(Version(a, View(t, balance, a)), t.seen)
    BY <1>2 DEF Transaction, Visible, View
  <2>5. a = S[k + 1].row /\ S[k + 1].op = "lock" /\ a \in Account
    BY <1>1, <2>3 DEF Statement
  <2> HIDE DEF S
  <2>6. u.seen \in Partial /\ Ran(S, k + 1, u, balance)
    <3> HIDE DEF u, a
    <3> QED
      BY <1>2, <1>4, <2>3, <2>4, <2>5, RanLock
  <2>7. Fits(u, balance)
    BY <2>3, <2>4, <2>6
  <2>8. u \in Transaction
    BY <1>1, <1>2, <2>4, <2>5, <2>6, TailTyped DEF Transaction
  <2>9. ASSUME NEW d \in Conn, d # c PROVE u.locks \cap tx[d].locks = {}
    <3>1. a \in Rows(c)
      BY <1>1, <1>4 DEF Rows
    <3>2. a \notin tx[d].locks
      BY <2>9, <3>1 DEF GetAccountLocked, Blocked, WaitsFor
    <3>3. t.locks \cap tx[d].locks = {}
      BY <2>9 DEF LedgerInv
    <3> QED
      BY <2>4, <3>2, <3>3
  <2> HIDE DEF u
  <2> QED
    BY <1>2, <2>1, <2>7, <2>8, <2>9, OneTransaction
<1> QED
  BY <1>3, <1>4

LEMMA CheckStep ==
  ASSUME LedgerInv, NEW c \in Conn, VerifyFunds(c)
  PROVE  LedgerInv'
<1> DEFINE t == tx[c]
           u == [t EXCEPT !.todo = Tail(@)]
<1>1. t.todo # <<>> /\ Now(c).op = "check" /\ Now(c) = Head(t.todo)
  BY DEF VerifyFunds, Running, Now
<1>2. /\ t \in Transaction /\ balance \in Partial /\ calls' \in 0..MaxCalls /\ faults' \in 0..MaxFaults
      /\ UNCHANGED <<alarms, calls, faults>> /\ Fits(t, balance)
  BY <1>1, Working DEF VerifyFunds
<1>3. CASE ~Covers(t.seen[Now(c).row], Now(c).amount)
  <2>1. Rollback(c)
    BY <1>3 DEF VerifyFunds, Covers
  <2> QED
    BY <1>2, <2>1, RollbackStep
<1>4. CASE Covers(t.seen[Now(c).row], Now(c).amount)
  <2>1. tx' = [tx EXCEPT ![c] = u] /\ UNCHANGED <<balance, entries>>
    BY <1>4 DEF VerifyFunds, LedgerInv, Covers
  <2>2. PICK k \in Nat : FitsAt(t, balance, k)
    BY <1>2 DEF Fits
  <2> DEFINE S == Statements(t.call)
  <2>3. /\ WellFormed(S) /\ k \in 0..Len(S) /\ k < Len(S) /\ Ran(S, k, t, balance)
        /\ Head(t.todo) = S[k + 1]
        /\ u.call = t.call /\ u.id = t.id /\ u.todo = Tail(t.todo) /\ Ran(S, k + 1, u, balance)
             => Fits(u, balance)
    <3> HIDE DEF u
    <3> QED
      BY <1>1, <1>2, <2>2, Facing
  <2>4. /\ u.call = t.call /\ u.id = t.id /\ u.todo = Tail(t.todo) /\ u.locks = t.locks
        /\ u.work = t.work /\ u.wrote = t.wrote /\ u.seen = t.seen
    BY <1>2 DEF Transaction
  <2>5. S[k + 1].op = "check" /\ Covers(t.seen[S[k + 1].row], S[k + 1].amount)
    BY <1>1, <1>4, <2>3
  <2> HIDE DEF S
  <2>6. u \in Transaction
    BY <1>1, <1>2, <2>4, TailTyped DEF Transaction
  <2> HIDE DEF u
  <2>7. Ran(S, k + 1, u, balance)
    BY <1>2, <2>3, <2>4, <2>5, RanRead
  <2>8. Fits(u, balance)
    BY <2>3, <2>4, <2>7
  <2>9. ASSUME NEW d \in Conn, d # c PROVE u.locks \cap tx[d].locks = {}
    BY <2>4, <2>9 DEF LedgerInv
  <2> QED
    BY <1>2, <2>1, <2>6, <2>8, <2>9, OneTransaction
<1> QED
  BY <1>3, <1>4

LEMMA EntryStep ==
  ASSUME LedgerInv, NEW c \in Conn, InsertEntry(c)
  PROVE  LedgerInv'
<1> DEFINE t == tx[c]
           u == [t EXCEPT !.todo = Tail(@), !.wrote = @ \cup {Entry(c, "CREDIT")}]
<1>1. t.todo # <<>> /\ Now(c).op = "entry" /\ Now(c) = Head(t.todo)
  BY DEF InsertEntry, Running, Now
<1>2. /\ t \in Transaction /\ balance \in Partial /\ calls' \in 0..MaxCalls /\ faults' \in 0..MaxFaults
      /\ UNCHANGED <<alarms, calls, faults>> /\ Fits(t, balance)
  BY <1>1, Working DEF InsertEntry
<1> SUFFICES ASSUME ~Vanishes(c) PROVE LedgerInv'
  BY <1>2, RollbackStep DEF InsertEntry
<1>3. tx' = [tx EXCEPT ![c] = u] /\ UNCHANGED <<balance, entries>>
  BY DEF InsertEntry, LedgerInv
<1>4. PICK k \in Nat : FitsAt(t, balance, k)
  BY <1>2 DEF Fits
<1> DEFINE S == Statements(t.call)
<1>5. /\ WellFormed(S) /\ k \in 0..Len(S) /\ k < Len(S) /\ Ran(S, k, t, balance)
      /\ Head(t.todo) = S[k + 1] /\ S[k + 1] \in Statement
      /\ u.call = t.call /\ u.id = t.id /\ u.todo = Tail(t.todo) /\ Ran(S, k + 1, u, balance)
           => Fits(u, balance)
  <2> HIDE DEF u
  <2> QED
    BY <1>1, <1>2, <1>4, Facing
<1>6. /\ u.call = t.call /\ u.id = t.id /\ u.todo = Tail(t.todo) /\ u.locks = t.locks
      /\ u.work = t.work /\ u.wrote = t.wrote \cup {Entry(c, "CREDIT")} /\ u.seen = t.seen
  BY <1>2 DEF Transaction
<1>7. S[k + 1].op = "entry"
  BY <1>1, <1>5
<1>8. Entry(c, "CREDIT") \in LedgerEntry
  <2>1. t.id \in 1..MaxCalls /\ Now(c) \in Statement
    BY <1>1, <1>4, <1>5 DEF FitsAt
  <2> QED
    BY <2>1, EntryTyped DEF Entry
<1> HIDE DEF S
<1>9. u \in Transaction
  BY <1>1, <1>2, <1>6, <1>8, TailTyped DEF Transaction
<1> HIDE DEF u
<1>10. Ran(S, k + 1, u, balance)
  BY <1>2, <1>5, <1>6, <1>7, RanRead
<1>11. Fits(u, balance)
  BY <1>5, <1>6, <1>10
<1>12. ASSUME NEW d \in Conn, d # c PROVE u.locks \cap tx[d].locks = {}
  BY <1>6, <1>12 DEF LedgerInv
<1> QED
  BY <1>2, <1>3, <1>9, <1>11, <1>12, OneTransaction

LEMMA UpdateStep ==
  ASSUME LedgerInv, NEW c \in Conn, UpdateBalance(c)
  PROVE  LedgerInv'
<1> DEFINE t == tx[c]
           a == Now(c).row
           n == NewBalance(c, Visible(c, a))
           e == Entry(c, IF Now(c).op = "debit" THEN "DEBIT" ELSE "CREDIT")
           u == [t EXCEPT !.locks = @ \cup {a}, !.work = Overlay(Version(a, n), @), !.todo = Tail(@),
                          !.wrote = @ \cup {e}]
<1>1. t.todo # <<>> /\ Now(c).op \in {"debit", "credit"} /\ Now(c) = Head(t.todo)
  BY DEF UpdateBalance, Running, Now
<1>2. /\ t \in Transaction /\ balance \in Partial /\ calls' \in 0..MaxCalls /\ faults' \in 0..MaxFaults
      /\ UNCHANGED <<alarms, calls, faults>> /\ Fits(t, balance) /\ DOMAIN Opening \subseteq DOMAIN balance
  BY <1>1, Working DEF UpdateBalance
<1>3. CASE Overdrawn(n) \/ Vanishes(c)
  <2>1. Rollback(c)
    BY <1>3 DEF UpdateBalance
  <2> QED
    BY <1>2, <2>1, RollbackStep
<1>4. CASE ~Overdrawn(n) /\ ~Vanishes(c)
  <2>1. tx' = [tx EXCEPT ![c] = u] /\ UNCHANGED <<balance, entries>>
    BY <1>4 DEF UpdateBalance, LedgerInv
  <2>2. PICK k \in Nat : FitsAt(t, balance, k)
    BY <1>2 DEF Fits
  <2> DEFINE S == Statements(t.call)
  <2>3. /\ WellFormed(S) /\ k \in 0..Len(S) /\ k < Len(S) /\ Ran(S, k, t, balance)
        /\ Head(t.todo) = S[k + 1] /\ S[k + 1] \in Statement
        /\ u.call = t.call /\ u.id = t.id /\ u.todo = Tail(t.todo) /\ Ran(S, k + 1, u, balance)
             => Fits(u, balance)
    <3> HIDE DEF u
    <3> QED
      BY <1>1, <1>2, <2>2, Facing
  <2>4. /\ u.call = t.call /\ u.id = t.id /\ u.todo = Tail(t.todo) /\ u.locks = t.locks \cup {a}
        /\ u.work = Overlay(Version(a, n), t.work) /\ u.wrote = t.wrote \cup {e} /\ u.seen = t.seen
    BY <1>2 DEF Transaction
  <2>5. a = S[k + 1].row /\ S[k + 1].op \in {"debit", "credit"} /\ a \in Account
    BY <1>1, <2>3 DEF Statement
  <2>6. a \in DOMAIN balance
    BY <1>2, <2>3, <2>5, RowExists
  <2>7. n = View(t, balance, a) + Effect(S[k + 1], a)
    <3>1. PICK v \in Nat, m \in Nat : v = View(t, balance, a) /\ m = Now(c).amount
      <4>1. View(t, balance, a) \in Nat
        BY <1>2, <2>3, <2>6, RanFacts
      <4>2. Now(c).amount \in Nat
        BY <1>1, <2>3 DEF Statement
      <4> QED
        BY <4>1, <4>2
    <3>2. n = Rounded(v * Grain + (IF Now(c).op = "debit" THEN -m ELSE m))
      BY <3>1 DEF NewBalance, Visible, View
    <3>3. Effect(S[k + 1], a) = IF Now(c).op = "debit" THEN -Taken(m) ELSE Given(m)
      BY <1>1, <2>3, <2>5, <3>1 DEF Effect
    <3>4. Given(m) \in Nat /\ Taken(m) \in Nat /\ v * Grain \in Nat
      BY GivenNat, Units
    <3>5. ~(n < 0)
      BY <1>4 DEF Overdrawn
    <3> HIDE DEF n, a, S
    <3>6. CASE Now(c).op = "debit"
      <4>1. n = Rounded(v * Grain - m)
        <5>1. v * Grain + (-m) = v * Grain - m
          BY <3>4
        <5> QED
          BY <3>2, <3>6, <5>1
      <4>2. v * Grain - m \in Int
        BY <3>4
      <4>3. n \in Int
        BY <4>1, <4>2, RoundedInt
      <4>4. n = v - Taken(m)
        BY <3>5, <4>1, <4>3, RoundedDebit
      <4> QED
        BY <3>1, <3>3, <3>4, <3>6, <4>4
    <3>7. CASE Now(c).op # "debit"
      <4>1. n = v + Given(m)
        BY <3>2, <3>7, RoundedCredit
      <4> QED
        BY <3>1, <3>3, <3>7, <4>1
    <3> QED
      BY <3>6, <3>7
  <2>8. n \in Nat
    <3>1. View(t, balance, a) \in Nat
      BY <1>2, <2>3, <2>6, RanFacts
    <3>2. Effect(S[k + 1], a) \in Int
      BY <2>3, EffectInt
    <3> HIDE DEF n, a, S
    <3> QED
      BY <1>4, <2>7, <3>1, <3>2 DEF Overdrawn
  <2>9. e \in LedgerEntry
    <3>1. t.id \in 1..MaxCalls /\ Now(c) \in Statement
      BY <1>1, <2>2, <2>3 DEF FitsAt
    <3> QED
      BY <3>1, EntryTyped DEF Entry
  <2> HIDE DEF S, n, e
  <2>10. u.work \in Partial /\ Ran(S, k + 1, u, balance)
    <3> HIDE DEF u, a
    <3> QED
      BY <1>2, <2>3, <2>4, <2>5, <2>7, <2>8, RanUpdate
  <2>11. Fits(u, balance)
    BY <2>3, <2>4, <2>10
  <2>12. u \in Transaction
    BY <1>1, <1>2, <2>4, <2>5, <2>9, <2>10, TailTyped DEF Transaction
  <2>13. ASSUME NEW d \in Conn, d # c PROVE u.locks \cap tx[d].locks = {}
    <3>1. a \in Rows(c)
      BY <1>1, <2>6 DEF Rows
    <3>2. a \notin tx[d].locks
      BY <2>13, <3>1 DEF UpdateBalance, Blocked, WaitsFor
    <3>3. t.locks \cap tx[d].locks = {}
      BY <2>13 DEF LedgerInv
    <3> QED
      BY <2>4, <3>2, <3>3
  <2> HIDE DEF u
  <2> QED
    BY <1>2, <2>1, <2>11, <2>12, <2>13, OneTransaction
<1> QED
  BY <1>3, <1>4

LEMMA OpenStep ==
  ASSUME LedgerInv, NEW c \in Conn, CreateWallets(c)
  PROVE  LedgerInv'
<1> DEFINE t == tx[c]
           new == Wallets(Now(c).row[1])
           u == [t EXCEPT !.locks = @ \cup new, !.todo = Tail(@),
                          !.work = Overlay([a \in new |-> OpeningBalance(Now(c), a)], @)]
<1>1. t.todo # <<>> /\ Now(c).op = "open" /\ Now(c) = Head(t.todo)
  BY DEF CreateWallets, Running, Now
<1>2. /\ t \in Transaction /\ balance \in Partial /\ calls' \in 0..MaxCalls /\ faults' \in 0..MaxFaults
      /\ UNCHANGED <<alarms, calls, faults>> /\ Fits(t, balance)
  BY <1>1, Working DEF CreateWallets
<1>3. CASE new \cap DOMAIN balance # {}
  <2>1. Rollback(c)
    BY <1>3 DEF CreateWallets
  <2> QED
    BY <1>2, <2>1, RollbackStep
<1>4. CASE new \cap DOMAIN balance = {}
  <2>1. tx' = [tx EXCEPT ![c] = u] /\ UNCHANGED <<balance, entries>>
    BY <1>4 DEF CreateWallets, LedgerInv
  <2>2. PICK k \in Nat : FitsAt(t, balance, k)
    BY <1>2 DEF Fits
  <2> DEFINE S == Statements(t.call)
  <2>3. /\ WellFormed(S) /\ k \in 0..Len(S) /\ k < Len(S) /\ Ran(S, k, t, balance)
        /\ Head(t.todo) = S[k + 1]
        /\ u.call = t.call /\ u.id = t.id /\ u.todo = Tail(t.todo) /\ Ran(S, k + 1, u, balance)
             => Fits(u, balance)
    <3> HIDE DEF u
    <3> QED
      BY <1>1, <1>2, <2>2, Facing
  <2>4. /\ u.call = t.call /\ u.id = t.id /\ u.todo = Tail(t.todo) /\ u.locks = t.locks \cup new
        /\ u.work = Overlay([a \in new |-> OpeningBalance(Now(c), a)], t.work) /\ u.wrote = t.wrote
        /\ u.seen = t.seen
    BY <1>2 DEF Transaction
  <2>5. Now(c) = S[k + 1]
    BY <1>1, <2>3
  <2> HIDE DEF S
  <2>6. u.work \in Partial /\ new \subseteq Account /\ Ran(S, k + 1, u, balance)
    <3> HIDE DEF u
    <3> QED
      BY <1>1, <1>2, <1>4, <2>3, <2>4, <2>5, RanOpen, SMTT(60)
  <2>7. Fits(u, balance)
    BY <2>3, <2>4, <2>6
  <2>8. u \in Transaction
    <3> HIDE DEF new
    <3> QED
      BY <1>1, <1>2, <2>4, <2>6, TailTyped DEF Transaction
  <2>9. ASSUME NEW d \in Conn, d # c PROVE u.locks \cap tx[d].locks = {}
    <3>1. new \subseteq Rows(c)
      BY <1>1 DEF Rows
    <3>2. new \cap tx[d].locks = {}
      BY <2>9, <3>1 DEF CreateWallets, Blocked, WaitsFor
    <3>3. t.locks \cap tx[d].locks = {}
      BY <2>9 DEF LedgerInv
    <3> QED
      BY <2>4, <3>2, <3>3
  <2> HIDE DEF u
  <2> QED
    BY <1>2, <2>1, <2>7, <2>8, <2>9, OneTransaction
<1> QED
  BY <1>3, <1>4

LEMMA FitsLocks ==
  ASSUME NEW t, NEW b, Fits(t, b)
  PROVE  DOMAIN t.work \subseteq t.locks /\ DOMAIN t.seen \subseteq t.locks
BY DEF Fits, FitsAt, Ran

LEMMA CommitStep ==
  ASSUME LedgerInv, NEW c \in Conn, Commit(c)
  PROVE  LedgerInv'
<1>1. /\ tx[c] \in Transaction /\ balance \in Partial /\ Fits(tx[c], balance)
      /\ tx[c].work \in Partial /\ tx[c].wrote \subseteq LedgerEntry
  BY DEF LedgerInv, Commit, Busy, Transaction
<1>2. balance' = Overlay(tx[c].work, balance) /\ UNCHANGED <<alarms, calls, faults>>
  BY DEF Commit
<1>3. balance' \in Partial /\ DOMAIN balance \subseteq DOMAIN balance'
  BY <1>1, <1>2, OverPartial
<1>4. entries' \subseteq LedgerEntry
  BY <1>1 DEF Commit, LedgerInv
<1>5. tx' \in [Conn -> Transaction] /\ tx'[c] = Idle /\ \A d \in Conn : d # c => tx'[d] = tx[d]
  BY IdleTransaction DEF Commit, LedgerInv
<1>6. \A d \in Conn : tx'[d] = Idle \/ Fits(tx'[d], balance')
  <2> SUFFICES ASSUME NEW d \in Conn, d # c, tx[d] # Idle PROVE Fits(tx[d], balance')
    BY <1>5
  <2>1. tx[d] \in Transaction /\ Fits(tx[d], balance) /\ tx[d].locks \cap tx[c].locks = {}
    BY DEF LedgerInv
  <2> QED
    BY <1>1, <1>2, <2>1, FitsLocks, OthersCommit
<1>7. \A d, e \in Conn : d # e => tx'[d].locks \cap tx'[e].locks = {}
  <2> TAKE d, e \in Conn
  <2>1. Idle.locks = {}
    BY DEF Idle
  <2>2. CASE d = c
    BY <1>5, <2>1, <2>2
  <2>3. CASE e = c
    BY <1>5, <2>1, <2>3
  <2>4. CASE d # c /\ e # c
    BY <1>5, <2>4 DEF LedgerInv
  <2> QED
    BY <2>2, <2>3, <2>4
<1> QED
  BY <1>2, <1>3, <1>4, <1>5, <1>6, <1>7 DEF LedgerInv

LEMMA JobStep ==
  ASSUME LedgerInv, RunReconciliationJob \/ VerifyInvariants
  PROVE  LedgerInv'
<1>1. Negative \subseteq {"negative"}
  BY DEF Negative
<1>2. alarms' \subseteq {"mismatch", "negative", "imbalance"} /\ UNCHANGED <<balance, entries, tx, calls, faults>>
  BY <1>1 DEF RunReconciliationJob, VerifyInvariants, Report, LedgerInv
<1> QED
  BY <1>2 DEF LedgerInv

LEMMA FaultStep ==
  ASSUME LedgerInv, NEW c \in Conn, Fault(c) PROVE LedgerInv'
<1>1. faults' \in 0..MaxFaults /\ calls' \in 0..MaxCalls /\ Rollback(c) /\ UNCHANGED alarms
  BY LedgerAssumption DEF Fault, LedgerInv
<1> QED
  BY <1>1, RollbackStep

LEMMA AbortStep ==
  ASSUME LedgerInv, NEW c \in Conn, AbortDeadlocked(c) PROVE LedgerInv'
<1>1. faults' \in 0..MaxFaults /\ calls' \in 0..MaxCalls /\ Rollback(c) /\ UNCHANGED alarms
  BY DEF AbortDeadlocked, LedgerInv
<1> QED
  BY <1>1, RollbackStep

LEMMA LedgerInit == Init => LedgerInv
<1> SUFFICES ASSUME Init PROVE LedgerInv
  OBVIOUS
<1>1. balance \in Partial
  BY LedgerAssumption DEF Init, Partial
<1> QED
  BY <1>1, IdleTransaction, LedgerAssumption DEF Init, LedgerInv, Idle

LEMMA LedgerStep == LedgerInv /\ [Next]_vars => LedgerInv'
<1> SUFFICES ASSUME LedgerInv, [Next]_vars PROVE LedgerInv'
  OBVIOUS
<1>1. ASSUME NEW c \in Conn, NEW call \in Call, Begin(c, call) PROVE LedgerInv'
  BY <1>1, BeginStep
<1>2. ASSUME NEW c \in Conn, Step(c) PROVE LedgerInv'
  BY <1>2, LockStep, CheckStep, UpdateStep, EntryStep, OpenStep, CommitStep DEF Step
<1>3. ASSUME NEW c \in Conn, Fault(c) \/ AbortDeadlocked(c) PROVE LedgerInv'
  BY <1>3, FaultStep, AbortStep
<1>4. CASE RunReconciliationJob \/ VerifyInvariants
  BY <1>4, JobStep
<1>5. CASE UNCHANGED vars
  BY <1>5 DEF vars, LedgerInv
<1> QED
  BY <1>1, <1>2, <1>3, <1>4, <1>5 DEF Next

\* The inductive invariant.
THEOREM LedgerInvariant == Spec => []LedgerInv
<1> QED
  BY LedgerInit, LedgerStep, PTL DEF Spec

LEMMA LedgerInvTyped == LedgerInv => TypeOK
<1> SUFFICES ASSUME LedgerInv PROVE TypeOK
  OBVIOUS
<1>1. \A c \in Conn : /\ tx[c] \in Transaction
                     /\ DOMAIN tx[c].work \subseteq tx[c].locks /\ DOMAIN tx[c].seen \subseteq tx[c].locks
  <2> TAKE c \in Conn
  <2>1. CASE tx[c] = Idle
    BY <2>1, EmptyPartial, IdleTransaction DEF Idle
  <2>2. CASE Fits(tx[c], balance)
    BY <2>2, FitsLocks DEF LedgerInv
  <2> QED
    BY <2>1, <2>2 DEF LedgerInv
<1>2. \A c \in Conn : tx[c].wrote \subseteq LedgerEntry /\ \A a \in DOMAIN tx[c].work : tx[c].work[a] \in Nat
  BY <1>1, PartialIs DEF Transaction
<1>3. DOMAIN balance \subseteq Account /\ \A a \in DOMAIN balance : balance[a] \in Nat
  BY PartialIs DEF LedgerInv
<1> QED
  BY <1>1, <1>2, <1>3 DEF LedgerInv, TypeOK

\* No balance is negative, and no two transactions hold versions of the same row.
THEOREM LedgerTyped == Spec => []TypeOK
<1> QED
  BY LedgerInvariant, LedgerInvTyped, PTL

-----------------------------------------------------------------------------
\* What a commit publishes, by program.
LEMMA Finished ==
  ASSUME NEW t \in Transaction, NEW b \in Partial, Fits(t, b), t.todo = <<>>
  PROVE  LET S == Statements(t.call)
             w == Overlay(t.work, b)
         IN  /\ t.call \in Call /\ WellFormed(S) /\ Ran(S, Len(S), t, b) /\ t.work \in Partial
             /\ w \in Partial /\ DOMAIN w = DOMAIN t.work \cup DOMAIN b
             /\ \A a \in DOMAIN b : /\ b[a] \in Nat /\ w[a] \in Nat
                                   /\ w[a] = b[a] + Moved(S, Len(S), a)
<1> DEFINE S == Statements(t.call)
           w == Overlay(t.work, b)
<1>1. PICK k \in Nat : FitsAt(t, b, k)
  BY DEF Fits
<1>2. t.call \in Call /\ WellFormed(S) /\ Len(S) \in 1..10
  BY <1>1, Programs DEF FitsAt, WellFormed
<1>3. Ran(S, Len(S), t, b)
  <2>1. Len(S) - k = 0
    BY <1>1 DEF FitsAt
  <2>2. k = Len(S)
    BY <1>2, <2>1
  <2> QED
    BY <1>1, <2>2 DEF FitsAt
<1>4. t.work \in Partial
  BY DEF Transaction
<1>5. w \in Partial /\ DOMAIN w = DOMAIN t.work \cup DOMAIN b
  BY <1>4, OverPartial
<1>6. ASSUME NEW a \in DOMAIN b PROVE b[a] \in Nat /\ w[a] \in Nat /\ w[a] = b[a] + Moved(S, Len(S), a)
  <2>1. b[a] \in Nat /\ w[a] \in Nat
    BY <1>5, PartialIs
  <2>2. w[a] = View(t, b, a)
    BY DEF Overlay, View
  <2>3. View(t, b, a) = b[a] + Moved(S, Len(S), a)
    BY <1>3 DEF Ran
  <2> QED
    BY <2>1, <2>2, <2>3
<1> QED
  BY <1>2, <1>3, <1>4, <1>5, <1>6

\* A program that opens no wallets publishes no new rows.
LEMMA NoNewRows ==
  ASSUME NEW S, NEW n \in Nat, NEW t, NEW b, Ran(S, n, t, b), \A i \in 1..n : S[i].op # "open"
  PROVE  DOMAIN t.work \subseteq DOMAIN b
BY DEF Ran

LEMMA MovedFive ==
  ASSUME NEW S \in Seq(Statement), Len(S) = 5, NEW a,
         \A i \in 1..3 : S[i].op \notin {"debit", "credit"}
  PROVE  Moved(S, 5, a) = Effect(S[4], a) + Effect(S[5], a)
<1>1. \A i \in 1..3 : EffectAt(S, i, 5, a) = 0
  BY DEF EffectAt, Effect
<1>2. \A i \in 6..10 : EffectAt(S, i, 5, a) = 0
  BY DEF EffectAt
<1>3. EffectAt(S, 4, 5, a) = Effect(S[4], a) /\ EffectAt(S, 5, 5, a) = Effect(S[5], a)
  BY DEF EffectAt
<1>4. Effect(S[4], a) \in Int /\ Effect(S[5], a) \in Int
  <2>1. S[4] \in Statement /\ S[5] \in Statement
    BY 4 \in 1..Len(S), 5 \in 1..Len(S), ElementOfSeq
  <2> QED
    BY <2>1, EffectInt
<1> QED
  BY <1>1, <1>2, <1>3, <1>4 DEF Moved, Sum10

LEMMA MovedThree ==
  ASSUME NEW S \in Seq(Statement), Len(S) = 3, NEW a,
         S[1].op \notin {"debit", "credit"}, S[3].op \notin {"debit", "credit"}
  PROVE  Moved(S, 3, a) = Effect(S[2], a)
<1>1. EffectAt(S, 1, 3, a) = 0 /\ EffectAt(S, 3, 3, a) = 0
  BY DEF EffectAt, Effect
<1>2. \A i \in 4..10 : EffectAt(S, i, 3, a) = 0
  BY DEF EffectAt
<1>3. EffectAt(S, 2, 3, a) = Effect(S[2], a)
  BY DEF EffectAt
<1>4. Effect(S[2], a) \in Int
  BY EffectInt, ElementOfSeq
<1> QED
  BY <1>1, <1>2, <1>3, <1>4 DEF Moved, Sum10

LEMMA MovedTen ==
  ASSUME NEW S \in Seq(Statement), Len(S) = 10, NEW a,
         \A i \in 1..6 : S[i].op \notin {"debit", "credit"}
  PROVE  Moved(S, 10, a) = Effect(S[7], a) + Effect(S[8], a) + Effect(S[9], a) + Effect(S[10], a)
<1>1. \A i \in 1..6 : EffectAt(S, i, 10, a) = 0
  BY DEF EffectAt, Effect
<1>2. \A i \in 7..10 : EffectAt(S, i, 10, a) = Effect(S[i], a)
  BY DEF EffectAt
<1>3. \A i \in 7..10 : Effect(S[i], a) \in Int
  <2> TAKE i \in 7..10
  <2>1. S[i] \in Statement
    BY i \in 1..Len(S), ElementOfSeq
  <2> QED
    BY <2>1, EffectInt
<1> QED
  BY <1>1, <1>2, <1>3 DEF Moved, Sum10

\* An amount moved from one wallet to another.
Paid(x, n, a) == IF a = x THEN n ELSE 0

LEMMA CommitEscrow ==
  ASSUME NEW t \in Transaction, NEW b \in Partial, Fits(t, b), t.todo = <<>>,
         NEW x \in Account, NEW y \in Account, NEW n \in Nat, NEW S, S = Statements(t.call),
         \/ S = <<SelectForUpdate(x), Require(x, n), SelectForUpdate(y), Debit(x, n), Credit(y, n)>>
         \/ S = <<SelectForUpdate(y), SelectForUpdate(x), Require(x, n), Debit(x, n), Credit(y, n)>>
  PROVE  LET w == Overlay(t.work, b) IN
         /\ w \in Partial /\ DOMAIN w = DOMAIN b
         /\ x \in DOMAIN b /\ y \in DOMAIN b /\ Covers(b[x], n)
         /\ \A a \in DOMAIN b : w[a] = b[a] + Paid(y, Given(n), a) - Paid(x, Taken(n), a)
<1> DEFINE w == Overlay(t.work, b)
<1>1. /\ WellFormed(S) /\ Ran(S, Len(S), t, b) /\ w \in Partial
      /\ DOMAIN w = DOMAIN t.work \cup DOMAIN b
      /\ \A a \in DOMAIN b : b[a] \in Nat /\ w[a] = b[a] + Moved(S, Len(S), a)
  BY Finished
<1>2. /\ Len(S) = 5 /\ S[4].op = "debit" /\ S[4].row = x /\ S[4].amount = n
      /\ S[5].op = "credit" /\ S[5].row = y /\ S[5].amount = n
      /\ \E i \in 1..3 : S[i].op = "check" /\ S[i].row = x /\ S[i].amount = n
      /\ \A i \in 1..3 : S[i].op \in {"lock", "check"}
  BY DEF SelectForUpdate, Require, Debit, Credit
<1>3. S \in Seq(Statement)
  BY <1>1 DEF WellFormed
<1> HIDE DEF w
<1>4. DOMAIN w = DOMAIN b
  <2>1. \A i \in 1..5 : S[i].op # "open"
    BY <1>2
  <2>2. Ran(S, 5, t, b)
    BY <1>1, <1>2
  <2>3. DOMAIN t.work \subseteq DOMAIN b
    BY <2>1, <2>2, NoNewRows, ZenonT(60)
  <2> QED
    BY <1>1, <2>3
<1>5. x \in DOMAIN b /\ y \in DOMAIN b /\ Covers(b[x], n)
  <2>1. Ran(S, 5, t, b)
    BY <1>1, <1>2
  <2>2. x \in DOMAIN b /\ y \in DOMAIN b
    BY <1>2, <2>1, 4 \in 1..5, 5 \in 1..5 DEF Ran
  <2>3. PICK i \in 1..3 : S[i].op = "check" /\ S[i].row = x /\ S[i].amount = n
    BY <1>2
  <2>4. x \in DOMAIN t.seen /\ Covers(t.seen[x], n)
    BY <2>1, <2>3, i \in 1..5 DEF Ran
  <2>5. t.seen[x] = b[x]
    BY <2>1, <2>4 DEF Ran
  <2> QED
    BY <2>2, <2>4, <2>5
<1>6. ASSUME NEW a \in DOMAIN b PROVE w[a] = b[a] + Paid(y, Given(n), a) - Paid(x, Taken(n), a)
  <2>1. Moved(S, 5, a) = Effect(S[4], a) + Effect(S[5], a)
    BY <1>2, <1>3, MovedFive
  <2>2. Effect(S[4], a) = -Paid(x, Taken(n), a) /\ Effect(S[5], a) = Paid(y, Given(n), a)
    BY <1>2 DEF Effect, Paid
  <2>3. Paid(x, Taken(n), a) \in Nat /\ Paid(y, Given(n), a) \in Nat /\ b[a] \in Nat
    BY <1>1, GivenNat DEF Paid
  <2>4. w[a] = b[a] + Moved(S, 5, a)
    BY <1>1, <1>2
  <2> QED
    BY <2>1, <2>2, <2>3, <2>4
<1> QED
  BY <1>1, <1>4, <1>5, <1>6 DEF w

LEMMA CommitSettle ==
  ASSUME NEW t \in Transaction, NEW b \in Partial, Fits(t, b), t.todo = <<>>,
         NEW x1 \in Account, NEW y1 \in Account, NEW n1 \in Nat,
         NEW x2 \in Account, NEW y2 \in Account, NEW n2 \in Nat,
         Statements(t.call) =
           <<SelectForUpdate(x1), SelectForUpdate(y1), SelectForUpdate(x2), SelectForUpdate(y2),
             Require(x1, n1), Require(x2, n2),
             Debit(x1, n1), Credit(y1, n1), Debit(x2, n2), Credit(y2, n2)>>
  PROVE  LET w == Overlay(t.work, b) IN
         /\ w \in Partial /\ DOMAIN w = DOMAIN b
         /\ {x1, y1, x2, y2} \subseteq DOMAIN b /\ Covers(b[x1], n1) /\ Covers(b[x2], n2)
         /\ \A a \in DOMAIN b : w[a] = b[a] + (Paid(y1, Given(n1), a) + Paid(y2, Given(n2), a))
                                           - (Paid(x1, Taken(n1), a) + Paid(x2, Taken(n2), a))
<1> DEFINE w == Overlay(t.work, b)
           S == Statements(t.call)
<1>1. /\ WellFormed(S) /\ Ran(S, Len(S), t, b) /\ w \in Partial
      /\ DOMAIN w = DOMAIN t.work \cup DOMAIN b
      /\ \A a \in DOMAIN b : b[a] \in Nat /\ w[a] = b[a] + Moved(S, Len(S), a)
  BY Finished
<1>2. /\ Len(S) = 10
      /\ S[1].op = "lock" /\ S[2].op = "lock" /\ S[3].op = "lock" /\ S[4].op = "lock"
      /\ S[5].op = "check" /\ S[5].row = x1 /\ S[5].amount = n1
      /\ S[6].op = "check" /\ S[6].row = x2 /\ S[6].amount = n2
      /\ S[7].op = "debit" /\ S[7].row = x1 /\ S[7].amount = n1
      /\ S[8].op = "credit" /\ S[8].row = y1 /\ S[8].amount = n1
      /\ S[9].op = "debit" /\ S[9].row = x2 /\ S[9].amount = n2
      /\ S[10].op = "credit" /\ S[10].row = y2 /\ S[10].amount = n2
  BY DEF SelectForUpdate, Require, Debit, Credit
<1>3. S \in Seq(Statement) /\ Ran(S, 10, t, b)
  BY <1>1, <1>2 DEF WellFormed
<1>4. \A i \in 1..10 : S[i].op # "open"
  BY <1>2
<1> HIDE DEF w, S
<1>5. DOMAIN w = DOMAIN b
  <2>1. DOMAIN t.work \subseteq DOMAIN b
    BY <1>3, <1>4, NoNewRows
  <2> QED
    BY <1>1, <2>1
<1>6. {x1, y1, x2, y2} \subseteq DOMAIN b /\ Covers(b[x1], n1) /\ Covers(b[x2], n2)
  <2>1. \A i \in 7..10 : S[i].row \in DOMAIN b
    BY <1>2, <1>3 DEF Ran
  <2>2. \A i \in 5..6 : S[i].row \in DOMAIN t.seen /\ Covers(t.seen[S[i].row], S[i].amount)
    BY <1>2, <1>3 DEF Ran
  <2>3. x1 \in DOMAIN t.seen /\ Covers(t.seen[x1], n1) /\ x2 \in DOMAIN t.seen /\ Covers(t.seen[x2], n2)
    BY <1>2, <2>2, 5 \in 5..6, 6 \in 5..6
  <2>4. t.seen[x1] = b[x1] /\ t.seen[x2] = b[x2]
    BY <1>3, <2>3 DEF Ran
  <2>5. x1 \in DOMAIN b /\ y1 \in DOMAIN b /\ x2 \in DOMAIN b /\ y2 \in DOMAIN b
    BY <1>2, <2>1, 7 \in 7..10, 8 \in 7..10, 9 \in 7..10, 10 \in 7..10
  <2> QED
    BY <2>3, <2>4, <2>5
<1>7. ASSUME NEW a \in DOMAIN b
      PROVE  w[a] = b[a] + (Paid(y1, Given(n1), a) + Paid(y2, Given(n2), a)) - (Paid(x1, Taken(n1), a) + Paid(x2, Taken(n2), a))
  <2>1. Moved(S, 10, a) = Effect(S[7], a) + Effect(S[8], a) + Effect(S[9], a) + Effect(S[10], a)
    <3>1. \A i \in 1..6 : S[i].op \notin {"debit", "credit"}
      BY <1>2
    <3> QED
      BY <1>2, <1>3, <3>1, MovedTen
  <2>2. /\ Effect(S[7], a) = -Paid(x1, Taken(n1), a) /\ Effect(S[8], a) = Paid(y1, Given(n1), a)
        /\ Effect(S[9], a) = -Paid(x2, Taken(n2), a) /\ Effect(S[10], a) = Paid(y2, Given(n2), a)
    BY <1>2 DEF Effect, Paid
  <2>3. /\ Paid(x1, Taken(n1), a) \in Nat /\ Paid(y1, Given(n1), a) \in Nat
        /\ Paid(x2, Taken(n2), a) \in Nat /\ Paid(y2, Given(n2), a) \in Nat /\ b[a] \in Nat
    BY <1>1, GivenNat DEF Paid
  <2>4. w[a] = b[a] + Moved(S, 10, a)
    BY <1>1, <1>2
  <2>5. PICK p \in Nat, q \in Nat, r \in Nat, z \in Nat, m \in Nat :
          p = Paid(x1, Taken(n1), a) /\ q = Paid(y1, Given(n1), a) /\ r = Paid(x2, Taken(n2), a) /\ z = Paid(y2, Given(n2), a) /\ m = b[a]
    BY <2>3
  <2>6. Moved(S, 10, a) = -p + q + (-r) + z
    BY <2>1, <2>2, <2>5
  <2>7. m + (-p + q + (-r) + z) = m + (q + z) - (p + r)
    OBVIOUS
  <2> QED
    BY <2>4, <2>5, <2>6, <2>7
<1> QED
  BY <1>1, <1>5, <1>6, <1>7 DEF w

\* An UPDATE that would overdraw the exchange is rejected, so the seed has been paid for.
LEMMA CommitRegister ==
  ASSUME NEW t \in Transaction, NEW b \in Partial, Fits(t, b), t.todo = <<>>,
         NEW v \in User, Statements(t.call) = <<InsertWallets(v), Debit(SystemUsd, Seed * Grain),
                                               InsertCredit(<<v, "USD", "CHECKING">>, Seed * Grain)>>
  PROVE  LET w == Overlay(t.work, b) IN
         /\ Wallets(v) \cap DOMAIN b = {} /\ SystemUsd \in DOMAIN b /\ b[SystemUsd] >= Seed
         /\ w = [a \in DOMAIN b \cup Wallets(v) |->
                   IF a = SystemUsd THEN b[a] - Seed
                   ELSE IF a \in DOMAIN b THEN b[a]
                   ELSE IF a = <<v, "USD", "CHECKING">> THEN Seed ELSE 0]
<1> DEFINE w == Overlay(t.work, b)
           S == Statements(t.call)
<1>1. /\ WellFormed(S) /\ Ran(S, Len(S), t, b) /\ w \in Partial
      /\ DOMAIN w = DOMAIN t.work \cup DOMAIN b
      /\ \A a \in DOMAIN b : b[a] \in Nat /\ w[a] \in Nat /\ w[a] = b[a] + Moved(S, Len(S), a)
  BY Finished
<1>2. /\ Len(S) = 3
      /\ S[1].op = "open" /\ S[1].row = <<v, "USD", "CHECKING">> /\ S[1].amount = Seed * Grain
      /\ S[2].op = "debit" /\ S[2].row = SystemUsd /\ S[2].amount = Seed * Grain
      /\ S[3].op = "entry"
  BY DEF InsertWallets, Debit, InsertCredit
<1> HIDE DEF S
<1>3. S \in Seq(Statement) /\ Ran(S, 3, t, b)
  BY <1>1, <1>2 DEF WellFormed
<1>4. S[1].row[1] = v
  BY <1>2
<1>5. /\ Wallets(v) \cap DOMAIN b = {} /\ Wallets(v) \subseteq DOMAIN t.work
      /\ \A a \in Wallets(v) : t.work[a] = IF a = <<v, "USD", "CHECKING">> THEN Seed ELSE 0
  <2>1. \A a \in Wallets(v) : /\ a \in DOMAIN t.work /\ a \notin DOMAIN b
                              /\ t.work[a] = OpeningBalance(S[1], a)
    BY <1>2, <1>3, <1>4, 1 \in 1..3 DEF Ran
  <2>2. Rounded(Seed * Grain) = Seed
    BY Amounts, Units
  <2> QED
    BY <1>2, <2>1, <2>2 DEF OpeningBalance
<1>6. SystemUsd \in DOMAIN b
  BY <1>2, <1>3, 2 \in 1..3 DEF Ran
<1>7. DOMAIN w = DOMAIN b \cup Wallets(v)
  <2>1. \A a \in DOMAIN t.work : a \in DOMAIN b \/ a \in Wallets(v)
    <3> TAKE a \in DOMAIN t.work
    <3>1. a \in DOMAIN b \/ \E i \in 1..3 : S[i].op = "open" /\ a \in Wallets(S[i].row[1])
      BY <1>3 DEF Ran
    <3>2. \A i \in 1..3 : S[i].op = "open" => i = 1
      BY <1>2
    <3> QED
      BY <1>4, <3>1, <3>2
  <2> QED
    BY <1>1, <1>5, <2>1
<1>8. \A a \in DOMAIN b : w[a] = IF a = SystemUsd THEN b[a] - Seed ELSE b[a]
  <2> TAKE a \in DOMAIN b
  <2>1. Moved(S, 3, a) = Effect(S[2], a)
    BY <1>2, <1>3, MovedThree
  <2>2. Effect(S[2], a) = IF a = SystemUsd THEN -Seed ELSE 0
    <3>1. Taken(Seed * Grain) = Seed
      BY Amounts, Units
    <3> QED
      BY <1>2, <3>1 DEF Effect
  <2>3. b[a] \in Nat /\ Seed \in Nat /\ w[a] = b[a] + Moved(S, 3, a)
    BY <1>1, <1>2, Amounts
  <2> HIDE DEF w
  <2> QED
    BY <2>1, <2>2, <2>3
<1>9. b[SystemUsd] >= Seed
  <2>1. b[SystemUsd] - Seed \in Nat /\ b[SystemUsd] \in Nat /\ Seed \in Nat
    BY <1>1, <1>6, <1>8, Amounts
  <2> QED
    BY <2>1
<1>10. \A a \in Wallets(v) : w[a] = IF a = <<v, "USD", "CHECKING">> THEN Seed ELSE 0
  BY <1>5 DEF Overlay
<1>11. w = [a \in DOMAIN w |-> w[a]]
  BY <1>1, PartialIs
<1> DEFINE f == [a \in DOMAIN b \cup Wallets(v) |->
                   IF a = SystemUsd THEN b[a] - Seed
                   ELSE IF a \in DOMAIN b THEN b[a]
                   ELSE IF a = <<v, "USD", "CHECKING">> THEN Seed ELSE 0]
<1>12. \A a \in DOMAIN b \cup Wallets(v) : w[a] = f[a]
  <2> TAKE a \in DOMAIN b \cup Wallets(v)
  <2> HIDE DEF w
  <2>1. CASE a \in DOMAIN b
    BY <1>8, <2>1
  <2>2. CASE a \notin DOMAIN b
    BY <1>6, <1>10, <2>2
  <2> QED
    BY <2>1, <2>2
<1>13. w = f
  <2> HIDE DEF w
  <2> QED
    BY <1>7, <1>11, <1>12
<1> QED
  BY <1>5, <1>6, <1>9, <1>13

-----------------------------------------------------------------------------
\* The ledger implements AtomicLedger.
LEMMA AtomicRounds == \A n : Atomic!Given(n) = Given(n) /\ Atomic!Taken(n) = Taken(n)
BY DEF Atomic!Given, Atomic!Taken, Given, Taken

LEMMA OneLeg ==
  ASSUME NEW x, NEW y, NEW n \in Nat, NEW a
  PROVE  /\ Atomic!In({Atomic!Leg(x, y, n)}, a) = Paid(y, Given(n), a)
         /\ Atomic!Out({Atomic!Leg(x, y, n)}, a) = Paid(x, Taken(n), a)
<1> DEFINE l == Atomic!Leg(x, y, n)
<1>1. l.from = x /\ l.to = y /\ l.amount = n
  BY DEF Atomic!Leg
<1> HIDE DEF l
<1>2. Atomic!In({l}, a) = Paid(y, Given(n), a)
  BY <1>1, AtomicRounds DEF Atomic!In, Paid
<1>3. Atomic!Out({l}, a) = Paid(x, Taken(n), a)
  BY <1>1, AtomicRounds DEF Atomic!Out, Paid
<1> QED
  BY <1>2, <1>3 DEF l

LEMMA TwoLegs ==
  ASSUME NEW x1, NEW y1, NEW n1 \in Nat, NEW x2, NEW y2, NEW n2 \in Nat, x1 # x2, y1 # y2, NEW a
  PROVE  LET legs == {Atomic!Leg(x1, y1, n1), Atomic!Leg(x2, y2, n2)}
         IN  /\ Atomic!In(legs, a) = Paid(y1, Given(n1), a) + Paid(y2, Given(n2), a)
             /\ Atomic!Out(legs, a) = Paid(x1, Taken(n1), a) + Paid(x2, Taken(n2), a)
<1> DEFINE l1 == Atomic!Leg(x1, y1, n1)
           l2 == Atomic!Leg(x2, y2, n2)
           legs == {l1, l2}
<1>1. /\ l1.from = x1 /\ l1.to = y1 /\ l1.amount = n1
      /\ l2.from = x2 /\ l2.to = y2 /\ l2.amount = n2
  BY DEF Atomic!Leg
<1> HIDE DEF l1, l2
<1>0. Given(n1) \in Nat /\ Given(n2) \in Nat /\ Taken(n1) \in Nat /\ Taken(n2) \in Nat
  BY GivenNat
<1>2. Atomic!In(legs, a) = Paid(y1, Given(n1), a) + Paid(y2, Given(n2), a)
  <2>1. CASE a = y1
    <3>1. (CHOOSE l \in legs : l.to = a) = l1
      BY <1>1, <2>1
    <3> QED
      BY <1>0, <1>1, <2>1, <3>1, AtomicRounds DEF Atomic!In, Paid
  <2>2. CASE a = y2
    <3>1. (CHOOSE l \in legs : l.to = a) = l2
      BY <1>1, <2>2
    <3> QED
      BY <1>0, <1>1, <2>2, <3>1, AtomicRounds DEF Atomic!In, Paid
  <2>3. CASE a # y1 /\ a # y2
    BY <1>1, <2>3, AtomicRounds DEF Atomic!In, Paid
  <2> QED
    BY <2>1, <2>2, <2>3
<1>3. Atomic!Out(legs, a) = Paid(x1, Taken(n1), a) + Paid(x2, Taken(n2), a)
  <2>1. CASE a = x1
    <3>1. (CHOOSE l \in legs : l.from = a) = l1
      BY <1>1, <2>1
    <3> QED
      BY <1>0, <1>1, <2>1, <3>1, AtomicRounds DEF Atomic!Out, Paid
  <2>2. CASE a = x2
    <3>1. (CHOOSE l \in legs : l.from = a) = l2
      BY <1>1, <2>2
    <3> QED
      BY <1>0, <1>1, <2>2, <3>1, AtomicRounds DEF Atomic!Out, Paid
  <2>3. CASE a # x1 /\ a # x2
    BY <1>1, <2>3, AtomicRounds DEF Atomic!Out, Paid
  <2> QED
    BY <2>1, <2>2, <2>3
<1> QED
  BY <1>2, <1>3 DEF l1, l2

\* The escrow calls.
LEMMA EscrowImplements ==
  ASSUME LedgerInv, NEW c \in Conn, Commit(c), tx[c].call.name \in {"lockEscrow", "releaseEscrow"}
  PROVE  Atomic!Next
<1> DEFINE t == tx[c]
           call == t.call
           n == Amount(call)
           x == IF call.name = "lockEscrow" THEN Checking(call) ELSE Escrow(call)
           y == IF call.name = "lockEscrow" THEN Escrow(call) ELSE Checking(call)
           S == Statements(call)
<1>1. /\ t \in Transaction /\ balance \in Partial /\ Fits(t, balance) /\ t.todo = <<>>
      /\ balance' = Overlay(t.work, balance)
  BY DEF LedgerInv, Commit, Busy
<1>2. call \in Call
  BY <1>1, Finished
<1>3. /\ call.user \in User /\ call.price \in Price /\ call.quantity \in Quantity /\ n \in Nat
      /\ x \in Account /\ y \in Account /\ call.side \in Side
  <2>1. call.side \in Side
    BY <1>2 DEF Call
  <2> QED
    BY <1>2, <2>1, EscrowCall
<1>4. \/ S = <<SelectForUpdate(x), Require(x, n), SelectForUpdate(y), Debit(x, n), Credit(y, n)>>
      \/ S = <<SelectForUpdate(y), SelectForUpdate(x), Require(x, n), Debit(x, n), Credit(y, n)>>
  <2>1. CASE call.name = "lockEscrow"
    BY <2>1 DEF Statements, LockEscrow
  <2>2. CASE call.name = "releaseEscrow"
    BY <2>2 DEF Statements, ReleaseEscrow
  <2> QED
    BY <2>1, <2>2
<1> HIDE DEF S, x, y, n
<1>5. /\ balance' \in Partial /\ DOMAIN balance' = DOMAIN balance
      /\ x \in DOMAIN balance /\ y \in DOMAIN balance /\ Covers(balance[x], n)
      /\ \A a \in DOMAIN balance : balance'[a] = balance[a] + Paid(y, Given(n), a) - Paid(x, Taken(n), a)
  BY <1>1, <1>3, <1>4, CommitEscrow DEF S
<1>6. Atomic!Transfer({Atomic!Leg(x, y, n)})
  <2> DEFINE legs == {Atomic!Leg(x, y, n)}
  <2>1. \A l \in legs : {l.from, l.to} \subseteq DOMAIN balance /\ balance[l.from] * Grain >= l.amount
    BY <1>5 DEF Atomic!Leg, Covers
  <2>2. balance' = [a \in DOMAIN balance |-> balance'[a]]
    BY <1>5, PartialIs
  <2>3. \A a \in DOMAIN balance : balance'[a] = balance[a] + Atomic!In(legs, a) - Atomic!Out(legs, a)
    BY <1>3, <1>5, OneLeg
  <2> HIDE DEF legs
  <2>4. balance' = [a \in DOMAIN balance |-> balance[a] + Atomic!In(legs, a) - Atomic!Out(legs, a)]
    BY <2>2, <2>3
  <2> QED
    BY <2>1, <2>4 DEF Atomic!Transfer, legs
<1>7. n = IF call.side = "BUY" THEN call.price * call.quantity ELSE call.quantity
  BY DEF n, Amount
<1>8. CASE call.side = "BUY"
  <2>1. \/ Atomic!Hold(call.user, "USD", call.price * call.quantity)
        \/ Atomic!Release(call.user, "USD", call.price * call.quantity)
    BY <1>6, <1>7, <1>8 DEF x, y, Checking, Escrow, Currencies, Atomic!Hold, Atomic!Release
  <2> QED
    BY <1>3, <2>1 DEF Atomic!Next
<1>9. CASE call.side = "SELL"
  <2>1. Atomic!Hold(call.user, "BTC", call.quantity) \/ Atomic!Release(call.user, "BTC", call.quantity)
    BY <1>6, <1>7, <1>9 DEF x, y, Checking, Escrow, Currencies, Atomic!Hold, Atomic!Release
  <2> QED
    BY <1>3, <2>1 DEF Atomic!Next
<1> QED
  BY <1>3, <1>8, <1>9 DEF Side

LEMMA SettleImplements ==
  ASSUME LedgerInv, NEW c \in Conn, Commit(c), tx[c].call.name = "settleTrade"
  PROVE  Atomic!Next
<1> DEFINE t == tx[c]
           call == t.call
           x1 == BuyerCash(call)
           y1 == SellerCash(call)
           n1 == call.price * call.quantity
           x2 == SellerAsset(call)
           y2 == BuyerAsset(call)
           n2 == call.quantity
           S == Statements(call)
<1>1. /\ t \in Transaction /\ balance \in Partial /\ Fits(t, balance) /\ t.todo = <<>>
      /\ balance' = Overlay(t.work, balance)
  BY DEF LedgerInv, Commit, Busy
<1>2. call \in Call
  BY <1>1, Finished
<1>3. /\ call.buyer \in Owner /\ call.seller \in Owner
      /\ call.price \in Price /\ call.quantity \in Quantity /\ n1 \in Nat /\ n2 \in Nat
      /\ x1 \in Account /\ y1 \in Account /\ x2 \in Account /\ y2 \in Account
  BY <1>2, SettleCall
<1>4. S = <<SelectForUpdate(x1), SelectForUpdate(y1), SelectForUpdate(x2), SelectForUpdate(y2),
            Require(x1, n1), Require(x2, n2),
            Debit(x1, n1), Credit(y1, n1), Debit(x2, n2), Credit(y2, n2)>>
  BY DEF Statements, SettleTrade, BuyerCash, SellerCash, SellerAsset, BuyerAsset
<1>5. x1 # x2 /\ y1 # y2
  BY DEF BuyerCash, SellerCash, SellerAsset, BuyerAsset
<1> HIDE DEF S, x1, y1, n1, x2, y2, n2
<1>6. /\ balance' \in Partial /\ DOMAIN balance' = DOMAIN balance
      /\ {x1, y1, x2, y2} \subseteq DOMAIN balance /\ Covers(balance[x1], n1) /\ Covers(balance[x2], n2)
      /\ \A a \in DOMAIN balance :
            balance'[a] = balance[a] + (Paid(y1, Given(n1), a) + Paid(y2, Given(n2), a)) - (Paid(x1, Taken(n1), a) + Paid(x2, Taken(n2), a))
  <2>1. Statements(t.call) =
          <<SelectForUpdate(x1), SelectForUpdate(y1), SelectForUpdate(x2), SelectForUpdate(y2),
            Require(x1, n1), Require(x2, n2),
            Debit(x1, n1), Credit(y1, n1), Debit(x2, n2), Credit(y2, n2)>>
    BY <1>4 DEF S
  <2>2. ASSUME NEW w, w = Overlay(t.work, balance)
        PROVE  /\ w \in Partial /\ DOMAIN w = DOMAIN balance
               /\ {x1, y1, x2, y2} \subseteq DOMAIN balance /\ Covers(balance[x1], n1) /\ Covers(balance[x2], n2)
               /\ \A a \in DOMAIN balance :
                     w[a] = balance[a] + (Paid(y1, Given(n1), a) + Paid(y2, Given(n2), a))
                                       - (Paid(x1, Taken(n1), a) + Paid(x2, Taken(n2), a))
    <3> HIDE DEF t, call
    <3> QED
      BY <1>1, <1>3, <2>1, <2>2, CommitSettle, SMTT(60)
  <2> QED
    BY <1>1, <2>2
<1>7. Atomic!Transfer({Atomic!Leg(x1, y1, n1), Atomic!Leg(x2, y2, n2)})
  <2> DEFINE legs == {Atomic!Leg(x1, y1, n1), Atomic!Leg(x2, y2, n2)}
  <2>1. \A l \in legs : {l.from, l.to} \subseteq DOMAIN balance /\ balance[l.from] * Grain >= l.amount
    BY <1>6 DEF Atomic!Leg, Covers
  <2>2. balance' = [a \in DOMAIN balance |-> balance'[a]]
    BY <1>6, PartialIs
  <2>3. \A a : /\ Atomic!In(legs, a) = Paid(y1, Given(n1), a) + Paid(y2, Given(n2), a)
               /\ Atomic!Out(legs, a) = Paid(x1, Taken(n1), a) + Paid(x2, Taken(n2), a)
    BY <1>3, <1>5, TwoLegs
  <2> HIDE DEF legs
  <2>4. \A a \in DOMAIN balance : balance'[a] = balance[a] + Atomic!In(legs, a) - Atomic!Out(legs, a)
    BY <1>6, <2>3
  <2>5. balance' = [a \in DOMAIN balance |-> balance[a] + Atomic!In(legs, a) - Atomic!Out(legs, a)]
    BY <2>2, <2>4
  <2> QED
    BY <2>1, <2>5 DEF Atomic!Transfer, legs
<1>8. Atomic!Settle(call.buyer, call.seller, call.price, call.quantity)
  BY <1>7 DEF x1, y1, n1, x2, y2, n2, BuyerCash, SellerCash, SellerAsset, BuyerAsset,
              Atomic!Settle, Atomic!TradesFrom
<1>9. call.buyer \in Atomic!Owner /\ call.seller \in Atomic!Owner
  BY <1>3 DEF Owner, Atomic!Owner
<1> QED
  BY <1>3, <1>8, <1>9 DEF Atomic!Next

LEMMA RegisterImplements ==
  ASSUME LedgerInv, NEW c \in Conn, Commit(c), tx[c].call.name = "register"
  PROVE  Atomic!Next
<1> DEFINE t == tx[c]
           v == t.call.user
<1>1. /\ t \in Transaction /\ balance \in Partial /\ Fits(t, balance) /\ t.todo = <<>>
      /\ balance' = Overlay(t.work, balance)
  BY DEF LedgerInv, Commit, Busy
<1>2. t.call \in Call
  BY <1>1, Finished
<1>3. v \in User
  BY <1>2, RegisterProgram
<1>4. Statements(t.call) = <<InsertWallets(v), Debit(SystemUsd, Seed * Grain), InsertCredit(<<v, "USD", "CHECKING">>, Seed * Grain)>>
  BY DEF Statements, Register
<1> HIDE DEF v
<1>5. /\ Wallets(v) \cap DOMAIN balance = {} /\ SystemUsd \in DOMAIN balance /\ balance[SystemUsd] >= Seed
      /\ balance' = [a \in DOMAIN balance \cup Wallets(v) |->
                       IF a = SystemUsd THEN balance[a] - Seed
                       ELSE IF a \in DOMAIN balance THEN balance[a]
                       ELSE IF a = <<v, "USD", "CHECKING">> THEN Seed ELSE 0]
  BY <1>1, <1>3, <1>4, CommitRegister
<1>6. Wallets(v) = Atomic!Wallets(v) /\ SystemUsd = Atomic!SystemUsd
  BY DEF Wallets, Currency, Kind, SystemUsd,
         Atomic!Wallets, Atomic!Currency, Atomic!Kind, Atomic!SystemUsd
<1>7. Atomic!Register(v)
  BY <1>5, <1>6 DEF Atomic!Register
<1> QED
  BY <1>3, <1>7 DEF Atomic!Next

LEMMA CommitImplements ==
  ASSUME LedgerInv, NEW c \in Conn, Commit(c) PROVE Atomic!Next
<1>1. tx[c] \in Transaction /\ balance \in Partial /\ Fits(tx[c], balance) /\ tx[c].todo = <<>>
  BY DEF LedgerInv, Commit, Busy
<1>2. tx[c].call \in Call
  BY <1>1, Finished
<1>3. tx[c].call.name \in {"lockEscrow", "releaseEscrow", "settleTrade", "register"}
  BY <1>2 DEF Call
<1> QED
  BY <1>3, EscrowImplements, SettleImplements, RegisterImplements

\* Only a commit changes a balance.
LEMMA StepImplements == LedgerInv /\ [Next]_vars => [Atomic!Next]_balance
<1> SUFFICES ASSUME LedgerInv, [Next]_vars PROVE Atomic!Next \/ UNCHANGED balance
  OBVIOUS
<1>1. ASSUME NEW c \in Conn, NEW call \in Call, Begin(c, call) PROVE UNCHANGED balance
  BY <1>1 DEF Begin
<1>2. ASSUME NEW c \in Conn, Step(c) PROVE Atomic!Next \/ UNCHANGED balance
  <2>1. CASE Commit(c)
    BY <2>1, CommitImplements
  <2>2. CASE GetAccountLocked(c) \/ VerifyFunds(c) \/ UpdateBalance(c) \/ InsertEntry(c) \/ CreateWallets(c)
    BY <2>2 DEF GetAccountLocked, VerifyFunds, UpdateBalance, InsertEntry, CreateWallets, Rollback
  <2> QED
    BY <1>2, <2>1, <2>2 DEF Step
<1>3. ASSUME NEW c \in Conn, Fault(c) \/ AbortDeadlocked(c) PROVE UNCHANGED balance
  BY <1>3 DEF Fault, AbortDeadlocked, Rollback
<1>4. CASE RunReconciliationJob \/ VerifyInvariants
  BY <1>4 DEF RunReconciliationJob, VerifyInvariants, Report
<1>5. CASE UNCHANGED vars
  BY <1>5 DEF vars
<1> QED
  BY <1>1, <1>2, <1>3, <1>4, <1>5 DEF Next

LEMMA InitImplements == Init => Atomic!Init
BY DEF Init, Atomic!Init

\* Every call is one funded movement of money or nothing, whatever the others do, however
\* many fail, and however they deadlock.
THEOREM LedgerAtomic == Spec => AllOrNothing
<1> QED
  BY InitImplements, StepImplements, LedgerInvariant, PTL DEF Spec, AllOrNothing, Atomic!Spec

\* ---- the entries tell the same story ----

\* The entry of a statement, and the entries of the first k statements of a transaction.
Writes == {"debit", "credit", "entry"}
EntryOf(n, s) ==
    [tx |-> <<n, s.row[2]>>, account |-> s.row,
     type |-> IF s.op = "debit" THEN "DEBIT" ELSE "CREDIT",
     amount |-> Rounded(s.amount), asked |-> s.amount]
Booked(t, k) ==
    {EntryOf(t.id, Statements(t.call)[i]) : i \in {j \in 1..k : Statements(t.call)[j].op \in Writes}}
Done(t) == Len(Statements(t.call)) - Len(t.todo)

\* Every transaction has a number of its own, and has written the entries of the statements
\* that it has run.
OwnEntries ==
    \A c \in Conn : tx[c] # Idle =>
      /\ tx[c].id \in 1..calls /\ tx[c].wrote = Booked(tx[c], Done(tx[c]))
      /\ \A d \in Conn : d # c /\ tx[d] # Idle => tx[d].id # tx[c].id
      /\ \A e \in entries : e.tx[1] # tx[c].id

\* Committed entries are those of whole transactions, on accounts that exist.
WholeEntries ==
    /\ IsFiniteSet(entries)
    /\ \A e \in entries : e.tx[1] \in 1..calls /\ e.account \in DOMAIN balance /\ Net({f \in entries : f.tx = e.tx}) = 0

BooksInv == LedgerInv /\ OwnEntries /\ WholeEntries /\ BalanceMatchesEntries /\ NoMismatch

\* ---- sums of entries ----
Value == [e \in LedgerEntry |-> Signed(e)]
Worth == [e \in LedgerEntry |-> Signed(e) + Kept(e)]

LEMMA NetIs ==
  ASSUME NEW E \in SUBSET LedgerEntry, IsFiniteSet(E)
  PROVE  Net(E) = SumFunctionOnSet(Value, E) /\ Net(E) \in Int /\ \A e \in E : Value[e] \in Int
<1>1. \A e \in E : Value[e] = Signed(e) /\ Signed(e) \in Int
  BY DEF Value, Signed, LedgerEntry
<1> DEFINE g == [e \in E |-> Signed(e)]
<1>2. \A e \in E : Value[e] \in Int /\ g[e] = Value[e]
  BY <1>1
<1>3. Net(E) = SumFunctionOnSet(g, E)
  BY DEF Net
<1> HIDE DEF g
<1>4. SumFunctionOnSet(g, E) = SumFunctionOnSet(Value, E)
  BY <1>2, SumSame
<1>5. SumFunctionOnSet(Value, E) \in Int
  BY <1>2, SumType
<1> QED
  BY <1>2, <1>3, <1>4, <1>5

LEMMA NetNothing == Net({}) = 0
BY SumEmpty DEF Net

LEMMA NetOne ==
  ASSUME NEW e \in LedgerEntry PROVE Net({e}) = Signed(e) /\ IsFiniteSet({e})
<1>1. IsFiniteSet({e}) /\ IsFiniteSet({})
  BY FS_Singleton, FS_EmptySet
<1>2. Net({e}) = SumFunctionOnSet(Value, {e}) /\ \A f \in {e} : Value[f] \in Int
  BY <1>1, NetIs
<1>3. SumFunctionOnSet(Value, {e}) = Value[e] + SumFunctionOnSet(Value, {e} \ {e})
  BY <1>1, <1>2, SumRemove
<1>4. {e} \ {e} = {} /\ SumFunctionOnSet(Value, {}) = 0
  BY SumEmpty
<1>5. Value[e] = Signed(e) /\ Value[e] \in Int
  BY <1>2 DEF Value
<1> QED
  BY <1>1, <1>2, <1>3, <1>4, <1>5

LEMMA NetBoth ==
  ASSUME NEW E \in SUBSET LedgerEntry, NEW F \in SUBSET LedgerEntry, IsFiniteSet(E), IsFiniteSet(F), E \cap F = {}
  PROVE  Net(E \cup F) = Net(E) + Net(F)
<1>1. IsFiniteSet(E \cup F) /\ E \cup F \in SUBSET LedgerEntry
  BY FS_Union
<1>2. \A e \in E \cup F : Value[e] \in Int
  BY <1>1, NetIs
<1>3. SumFunctionOnSet(Value, E \cup F) = SumFunctionOnSet(Value, E) + SumFunctionOnSet(Value, F)
  BY <1>2, SumUnion
<1> QED
  BY <1>1, <1>3, NetIs

\* Likewise with what debits ending in a half leave behind.
LEMMA ExplainedIs ==
  ASSUME NEW E \in SUBSET LedgerEntry, IsFiniteSet(E)
  PROVE  Explained(E) = SumFunctionOnSet(Worth, E) /\ Explained(E) \in Int /\ \A e \in E : Worth[e] \in Int
<1>1. \A e \in E : Worth[e] = Signed(e) + Kept(e) /\ Signed(e) + Kept(e) \in Int
  BY DEF Worth, Signed, Kept, LedgerEntry
<1> DEFINE g == [e \in E |-> Signed(e) + Kept(e)]
<1>2. \A e \in E : Worth[e] \in Int /\ g[e] = Worth[e]
  BY <1>1
<1>3. Explained(E) = SumFunctionOnSet(g, E)
  BY DEF Explained
<1> HIDE DEF g
<1>4. SumFunctionOnSet(g, E) = SumFunctionOnSet(Worth, E)
  BY <1>2, SumSame
<1>5. SumFunctionOnSet(Worth, E) \in Int
  BY <1>2, SumType
<1> QED
  BY <1>2, <1>3, <1>4, <1>5

LEMMA ExplainedNothing == Explained({}) = 0
BY SumEmpty DEF Explained

LEMMA ExplainedOne ==
  ASSUME NEW e \in LedgerEntry PROVE Explained({e}) = Signed(e) + Kept(e) /\ IsFiniteSet({e})
<1>1. IsFiniteSet({e}) /\ IsFiniteSet({})
  BY FS_Singleton, FS_EmptySet
<1>2. Explained({e}) = SumFunctionOnSet(Worth, {e}) /\ \A f \in {e} : Worth[f] \in Int
  BY <1>1, ExplainedIs
<1>3. SumFunctionOnSet(Worth, {e}) = Worth[e] + SumFunctionOnSet(Worth, {e} \ {e})
  BY <1>1, <1>2, SumRemove
<1>4. {e} \ {e} = {} /\ SumFunctionOnSet(Worth, {}) = 0
  BY SumEmpty
<1>5. Worth[e] = Signed(e) + Kept(e) /\ Worth[e] \in Int
  BY <1>2 DEF Worth
<1>6. Explained({e}) = Worth[e] + 0
  BY <1>2, <1>3, <1>4
<1> QED
  BY <1>1, <1>5, <1>6

LEMMA ExplainedBoth ==
  ASSUME NEW E \in SUBSET LedgerEntry, NEW F \in SUBSET LedgerEntry, IsFiniteSet(E), IsFiniteSet(F), E \cap F = {}
  PROVE  Explained(E \cup F) = Explained(E) + Explained(F)
<1>1. IsFiniteSet(E \cup F) /\ E \cup F \in SUBSET LedgerEntry
  BY FS_Union
<1>2. \A e \in E \cup F : Worth[e] \in Int
  BY <1>1, ExplainedIs
<1>3. SumFunctionOnSet(Worth, E \cup F) = SumFunctionOnSet(Worth, E) + SumFunctionOnSet(Worth, F)
  BY <1>2, SumUnion
<1> QED
  BY <1>1, <1>3, ExplainedIs

\* The two entries of a movement of m from x to y.
Debited(n, x, m) == [tx |-> <<n, x[2]>>, account |-> x, type |-> "DEBIT", amount |-> Rounded(m), asked |-> m]
Credited(n, y, m) == [tx |-> <<n, y[2]>>, account |-> y, type |-> "CREDIT", amount |-> Rounded(m), asked |-> m]

\* The entries on an account, and those of one leg of one transaction.
OnAccount(E, a) == {e \in E : e.account = a}
OfLeg(E, z) == {e \in E : e.tx = z}

\* E books a movement of m from x to y by transaction n.
Movement(E, n, x, y, m) ==
    /\ E \in SUBSET LedgerEntry /\ IsFiniteSet(E)
    /\ \A e \in E : e.tx = <<n, x[2]>> /\ e.account \in {x, y}
    /\ \A a : Explained(OnAccount(E, a)) = Paid(y, Given(m), a) - Paid(x, Taken(m), a)
    /\ \A z : Net(OfLeg(E, z)) = 0

LEMMA MovementBooks ==
  ASSUME NEW n \in 1..MaxCalls, NEW x \in Account, NEW y \in Account, x[2] = y[2], NEW m \in Nat
  PROVE  Movement({Debited(n, x, m), Credited(n, y, m)}, n, x, y, m)
<1> DEFINE d == Debited(n, x, m)
           c == Credited(n, y, m)
<1>1. d \in LedgerEntry /\ c \in LedgerEntry
  <2>1. x[2] \in Currency /\ y[2] \in Currency
    BY DEF Account, Wallets
  <2>2. Rounded(m) \in Nat
    BY GivenNat
  <2> QED
    BY <2>1, <2>2 DEF LedgerEntry, Debited, Credited
<1>0. /\ Given(m) \in Nat /\ Taken(m) \in Nat /\ Rounded(m) = Given(m)
      /\ Taken(m) = Given(m) - (IF 2 * (m % Grain) = Grain THEN 1 ELSE 0)
  BY GivenNat
<1>2. /\ d.tx = <<n, x[2]>> /\ c.tx = <<n, x[2]>> /\ d.account = x /\ c.account = y
      /\ Signed(d) = -Given(m) /\ Signed(c) = Given(m) /\ d # c
      /\ Kept(d) = (IF 2 * (m % Grain) = Grain THEN 1 ELSE 0) /\ Kept(c) = 0
  BY <1>0 DEF Debited, Credited, Signed, Kept
<1> HIDE DEF d, c
<1>3. /\ IsFiniteSet({d}) /\ IsFiniteSet({c}) /\ {d, c} = {d} \cup {c} /\ {d} \cap {c} = {}
      /\ Net({d}) = -Given(m) /\ Net({c}) = Given(m)
      /\ Explained({d}) = -Taken(m) /\ Explained({c}) = Given(m)
  <2>1. Net({d}) = Signed(d) /\ Net({c}) = Signed(c) /\ IsFiniteSet({d}) /\ IsFiniteSet({c})
    BY <1>1, NetOne
  <2>2. Explained({d}) = Signed(d) + Kept(d) /\ Explained({c}) = Signed(c) + Kept(c)
    BY <1>1, ExplainedOne
  <2> QED
    BY <1>0, <1>2, <2>1, <2>2
<1>4. Net({d, c}) = 0 /\ IsFiniteSet({d, c}) /\ Explained({d, c}) = Given(m) - Taken(m)
  <2>1. Net({d} \cup {c}) = Net({d}) + Net({c})
    BY <1>1, <1>3, NetBoth
  <2>2. Explained({d} \cup {c}) = Explained({d}) + Explained({c})
    BY <1>1, <1>3, ExplainedBoth
  <2>3. IsFiniteSet({d} \cup {c})
    BY <1>3, FS_Union
  <2>4. Net({d, c}) = -Given(m) + Given(m) /\ Explained({d, c}) = -Taken(m) + Given(m)
    BY <1>3, <2>1, <2>2
  <2>5. PICK g \in Nat, k \in Nat : g = Given(m) /\ k = Taken(m)
    BY <1>0
  <2>6. -g + g = 0 /\ -k + g = g - k
    OBVIOUS
  <2> QED
    BY <1>3, <2>3, <2>4, <2>5, <2>6, Zenon
<1>5. ASSUME NEW a PROVE Explained(OnAccount({d, c}, a)) = Paid(y, Given(m), a) - Paid(x, Taken(m), a)
  <2>1. CASE a = x /\ a = y
    <3>1. OnAccount({d, c}, a) = {d, c}
      BY <1>2, <2>1 DEF OnAccount
    <3> QED
      BY <1>0, <1>4, <2>1, <3>1 DEF Paid
  <2>2. CASE a = x /\ a # y
    <3>1. OnAccount({d, c}, a) = {d}
      BY <1>2, <2>2 DEF OnAccount
    <3>2. Explained(OnAccount({d, c}, a)) = -Taken(m) /\ Paid(y, Given(m), a) = 0 /\ Paid(x, Taken(m), a) = Taken(m)
      BY <1>3, <2>2, <3>1 DEF Paid
    <3> QED
      BY <1>0, <3>2
  <2>3. CASE a # x /\ a = y
    <3>1. OnAccount({d, c}, a) = {c}
      BY <1>2, <2>3 DEF OnAccount
    <3>2. Explained(OnAccount({d, c}, a)) = Given(m) /\ Paid(y, Given(m), a) = Given(m) /\ Paid(x, Taken(m), a) = 0
      BY <1>3, <2>3, <3>1 DEF Paid
    <3> QED
      BY <1>0, <3>2
  <2>4. CASE a # x /\ a # y
    <3>1. OnAccount({d, c}, a) = {}
      BY <1>2, <2>4 DEF OnAccount
    <3> QED
      BY <2>4, <3>1, ExplainedNothing DEF Paid
  <2> QED
    BY <2>1, <2>2, <2>3, <2>4
<1>6. ASSUME NEW z PROVE Net(OfLeg({d, c}, z)) = 0
  <2>1. OfLeg({d, c}, z) = {d, c} \/ OfLeg({d, c}, z) = {}
    BY <1>2 DEF OfLeg
  <2> QED
    BY <1>4, <2>1, NetNothing
<1> QED
  BY <1>1, <1>2, <1>4, <1>5, <1>6 DEF Movement, d, c

\* ---- what a commit adds to the books ----
\* The entries of t explain every change of a balance, movement by movement.
Explains(t, b) ==
    LET w == Overlay(t.work, b) IN
    /\ t.wrote \in SUBSET LedgerEntry /\ IsFiniteSet(t.wrote)
    /\ \A e \in t.wrote : e.tx[1] = t.id /\ e.account \in DOMAIN w
    /\ \A a \in DOMAIN w : w[a] = (IF a \in DOMAIN b THEN b[a] ELSE 0) + Explained(OnAccount(t.wrote, a))
    /\ \A z : Net(OfLeg(t.wrote, z)) = 0

LEMMA EscrowExplains ==
  ASSUME NEW t \in Transaction, NEW b \in Partial, Fits(t, b), t.todo = <<>>, t.id \in 1..MaxCalls,
         NEW x \in Account, NEW y \in Account, x[2] = y[2], NEW n \in Nat, NEW S, S = Statements(t.call),
         \/ S = <<SelectForUpdate(x), Require(x, n), SelectForUpdate(y), Debit(x, n), Credit(y, n)>>
         \/ S = <<SelectForUpdate(y), SelectForUpdate(x), Require(x, n), Debit(x, n), Credit(y, n)>>,
         t.wrote = Booked(t, Len(S))
  PROVE  Explains(t, b)
<1> DEFINE w == Overlay(t.work, b)
<1>1. /\ w \in Partial /\ DOMAIN w = DOMAIN b /\ x \in DOMAIN b /\ y \in DOMAIN b
      /\ \A a \in DOMAIN b : w[a] = b[a] + Paid(y, Given(n), a) - Paid(x, Taken(n), a)
  BY CommitEscrow
<1>2. /\ Len(S) = 5 /\ S[4] = Debit(x, n) /\ S[5] = Credit(y, n)
      /\ \A i \in 1..3 : S[i].op \in {"lock", "check"}
  BY DEF SelectForUpdate, Require
<1>3. t.wrote = {Debited(t.id, x, n), Credited(t.id, y, n)}
  <2>1. {j \in 1..5 : S[j].op \in Writes} = {4, 5}
    BY <1>2 DEF Writes, Debit, Credit
  <2>2. Booked(t, 5) = {EntryOf(t.id, S[4]), EntryOf(t.id, S[5])}
    BY <2>1 DEF Booked
  <2> QED
    BY <1>2, <2>2 DEF EntryOf, Debit, Credit, Debited, Credited
<1>4. /\ t.wrote \in SUBSET LedgerEntry /\ IsFiniteSet(t.wrote)
      /\ \A e \in t.wrote : e.tx = <<t.id, x[2]>> /\ e.account \in {x, y}
      /\ \A a : Explained(OnAccount(t.wrote, a)) = Paid(y, Given(n), a) - Paid(x, Taken(n), a)
      /\ \A z : Net(OfLeg(t.wrote, z)) = 0
  <2>1. Movement(t.wrote, t.id, x, y, n)
    BY <1>3, MovementBooks
  <2> QED
    BY <2>1 DEF Movement
<1>5. \A a \in DOMAIN b : b[a] \in Nat /\ Paid(x, Taken(n), a) \in Nat /\ Paid(y, Given(n), a) \in Nat
  BY PartialIs, GivenNat DEF Paid
<1>6. ASSUME NEW a \in DOMAIN b PROVE w[a] = b[a] + Explained(OnAccount(t.wrote, a))
  <2>1. Explained(OnAccount(t.wrote, a)) = Paid(y, Given(n), a) - Paid(x, Taken(n), a)
    BY <1>4
  <2> HIDE DEF w
  <2> QED
    BY <1>1, <1>5, <2>1
<1> HIDE DEF w
<1> QED
  BY <1>1, <1>4, <1>6 DEF Explains, w

LEMMA SettleExplains ==
  ASSUME NEW t \in Transaction, NEW b \in Partial, Fits(t, b), t.todo = <<>>, t.id \in 1..MaxCalls,
         NEW x1 \in Account, NEW y1 \in Account, NEW n1 \in Nat, x1[2] = y1[2],
         NEW x2 \in Account, NEW y2 \in Account, NEW n2 \in Nat, x2[2] = y2[2], x1[2] # x2[2],
         Statements(t.call) =
           <<SelectForUpdate(x1), SelectForUpdate(y1), SelectForUpdate(x2), SelectForUpdate(y2),
             Require(x1, n1), Require(x2, n2),
             Debit(x1, n1), Credit(y1, n1), Debit(x2, n2), Credit(y2, n2)>>,
         t.wrote = Booked(t, 10)
  PROVE  Explains(t, b)
<1> DEFINE w == Overlay(t.work, b)
           S == Statements(t.call)
           E == {Debited(t.id, x1, n1), Credited(t.id, y1, n1)}
           F == {Debited(t.id, x2, n2), Credited(t.id, y2, n2)}
<1>1. /\ w \in Partial /\ DOMAIN w = DOMAIN b /\ {x1, y1, x2, y2} \subseteq DOMAIN b
      /\ \A a \in DOMAIN b : w[a] = b[a] + (Paid(y1, Given(n1), a) + Paid(y2, Given(n2), a))
                                        - (Paid(x1, Taken(n1), a) + Paid(x2, Taken(n2), a))
  <2>1. ASSUME NEW z, z = Overlay(t.work, b)
        PROVE  /\ z \in Partial /\ DOMAIN z = DOMAIN b /\ {x1, y1, x2, y2} \subseteq DOMAIN b
               /\ \A a \in DOMAIN b : z[a] = b[a] + (Paid(y1, Given(n1), a) + Paid(y2, Given(n2), a))
                                                 - (Paid(x1, Taken(n1), a) + Paid(x2, Taken(n2), a))
    <3> HIDE DEF w, S, E, F
    <3> QED
      BY <2>1, CommitSettle, SMTT(60)
  <2> QED
    BY <2>1
<1>2. /\ S[7] = Debit(x1, n1) /\ S[8] = Credit(y1, n1) /\ S[9] = Debit(x2, n2) /\ S[10] = Credit(y2, n2)
      /\ \A i \in 1..6 : S[i].op \in {"lock", "check"}
  BY DEF SelectForUpdate, Require
<1>3. t.wrote = E \cup F
  <2> HIDE DEF S
  <2>1. {j \in 1..10 : S[j].op \in Writes} = {7, 8, 9, 10}
    BY <1>2 DEF Writes, Debit, Credit
  <2>2. Booked(t, 10) = {EntryOf(t.id, S[7]), EntryOf(t.id, S[8]), EntryOf(t.id, S[9]), EntryOf(t.id, S[10])}
    BY <2>1 DEF Booked, S
  <2>3. /\ EntryOf(t.id, S[7]) = Debited(t.id, x1, n1) /\ EntryOf(t.id, S[8]) = Credited(t.id, y1, n1)
        /\ EntryOf(t.id, S[9]) = Debited(t.id, x2, n2) /\ EntryOf(t.id, S[10]) = Credited(t.id, y2, n2)
    BY <1>2 DEF EntryOf, Debit, Credit, Debited, Credited
  <2> QED
    BY <2>2, <2>3
<1>4. /\ E \in SUBSET LedgerEntry /\ IsFiniteSet(E)
      /\ \A e \in E : e.tx = <<t.id, x1[2]>> /\ e.account \in {x1, y1}
      /\ \A a : Explained(OnAccount(E, a)) = Paid(y1, Given(n1), a) - Paid(x1, Taken(n1), a)
      /\ \A z : Net(OfLeg(E, z)) = 0
  <2>1. Movement(E, t.id, x1, y1, n1)
    BY MovementBooks
  <2> HIDE DEF E
  <2> QED
    BY <2>1 DEF Movement
<1>5. /\ F \in SUBSET LedgerEntry /\ IsFiniteSet(F)
      /\ \A e \in F : e.tx = <<t.id, x2[2]>> /\ e.account \in {x2, y2}
      /\ \A a : Explained(OnAccount(F, a)) = Paid(y2, Given(n2), a) - Paid(x2, Taken(n2), a)
      /\ \A z : Net(OfLeg(F, z)) = 0
  <2>1. Movement(F, t.id, x2, y2, n2)
    BY MovementBooks
  <2> HIDE DEF F
  <2> QED
    BY <2>1 DEF Movement
<1> HIDE DEF E, F, S
<1>6. E \cap F = {}
  BY <1>4, <1>5
<1>7. t.wrote \in SUBSET LedgerEntry /\ IsFiniteSet(t.wrote)
  <2>1. IsFiniteSet(E \cup F)
    BY <1>4, <1>5, FS_Union
  <2> QED
    BY <1>3, <1>4, <1>5, <2>1
<1>8. ASSUME NEW G, NEW H, G \subseteq E, H \subseteq F
      PROVE  Net(G \cup H) = Net(G) + Net(H) /\ Explained(G \cup H) = Explained(G) + Explained(H)
  <2>1. G \in SUBSET LedgerEntry /\ H \in SUBSET LedgerEntry /\ G \cap H = {}
    BY <1>4, <1>5, <1>6, <1>8
  <2>2. IsFiniteSet(G) /\ IsFiniteSet(H)
    BY <1>4, <1>5, <1>8, FS_Subset
  <2> QED
    BY <2>1, <2>2, NetBoth, ExplainedBoth
<1>9. ASSUME NEW a \in DOMAIN b PROVE w[a] = b[a] + Explained(OnAccount(t.wrote, a))
  <2>1. OnAccount(t.wrote, a) = OnAccount(E, a) \cup OnAccount(F, a)
    BY <1>3 DEF OnAccount
  <2>2. Explained(OnAccount(t.wrote, a)) = Explained(OnAccount(E, a)) + Explained(OnAccount(F, a))
    <3>1. OnAccount(E, a) \subseteq E /\ OnAccount(F, a) \subseteq F
      BY DEF OnAccount
    <3> QED
      BY <1>8, <2>1, <3>1
  <2>3. PICK p \in Nat, q \in Nat, r \in Nat, z \in Nat, m \in Nat :
          p = Paid(x1, Taken(n1), a) /\ q = Paid(y1, Given(n1), a) /\ r = Paid(x2, Taken(n2), a) /\ z = Paid(y2, Given(n2), a) /\ m = b[a]
    BY PartialIs, GivenNat DEF Paid
  <2>4. Explained(OnAccount(t.wrote, a)) = (q - p) + (z - r)
    BY <1>4, <1>5, <2>2, <2>3
  <2> HIDE DEF w
  <2>5. w[a] = m + (q + z) - (p + r)
    BY <1>1, <2>3
  <2> QED
    BY <2>3, <2>4, <2>5
<1>10. ASSUME NEW z PROVE Net(OfLeg(t.wrote, z)) = 0
  <2>1. OfLeg(t.wrote, z) = OfLeg(E, z) \cup OfLeg(F, z)
    BY <1>3 DEF OfLeg
  <2>2. Net(OfLeg(t.wrote, z)) = Net(OfLeg(E, z)) + Net(OfLeg(F, z))
    <3>1. OfLeg(E, z) \subseteq E /\ OfLeg(F, z) \subseteq F
      BY DEF OfLeg
    <3> QED
      BY <1>8, <2>1, <3>1
  <2> QED
    BY <1>4, <1>5, <2>2
<1>11. \A e \in t.wrote : e.tx[1] = t.id /\ e.account \in DOMAIN b
  BY <1>1, <1>3, <1>4, <1>5
<1> HIDE DEF w
<1> QED
  BY <1>1, <1>7, <1>9, <1>10, <1>11 DEF Explains, w

LEMMA RegisterExplains ==
  ASSUME NEW t \in Transaction, NEW b \in Partial, Fits(t, b), t.todo = <<>>, t.id \in 1..MaxCalls,
         NEW v \in User, Statements(t.call) = <<InsertWallets(v), Debit(SystemUsd, Seed * Grain),
                                               InsertCredit(<<v, "USD", "CHECKING">>, Seed * Grain)>>,
         t.wrote = Booked(t, 3)
  PROVE  Explains(t, b)
<1> DEFINE w == Overlay(t.work, b)
           S == Statements(t.call)
           x == <<v, "USD", "CHECKING">>
<1>1. /\ Wallets(v) \cap DOMAIN b = {} /\ SystemUsd \in DOMAIN b
      /\ w = [a \in DOMAIN b \cup Wallets(v) |->
                   IF a = SystemUsd THEN b[a] - Seed
                   ELSE IF a \in DOMAIN b THEN b[a]
                   ELSE IF a = x THEN Seed ELSE 0]
  BY CommitRegister
<1>2. /\ S[1].op = "open" /\ S[2] = Debit(SystemUsd, Seed * Grain) /\ S[3] = InsertCredit(x, Seed * Grain)
  BY DEF InsertWallets
<1>3. t.wrote = {Debited(t.id, SystemUsd, Seed * Grain), Credited(t.id, x, Seed * Grain)}
  <2> HIDE DEF S, x
  <2>1. {j \in 1..3 : S[j].op \in Writes} = {2, 3}
    BY <1>2 DEF Writes, Debit, InsertCredit
  <2>2. Booked(t, 3) = {EntryOf(t.id, S[2]), EntryOf(t.id, S[3])}
    BY <2>1 DEF Booked, S
  <2> QED
    BY <1>2, <2>2 DEF EntryOf, Debit, InsertCredit, Debited, Credited
<1>4. /\ x \in Account /\ SystemUsd \in Account /\ x[2] = SystemUsd[2] /\ Seed \in Nat /\ Seed * Grain \in Nat
      /\ x \in Wallets(v) /\ x # SystemUsd
  BY Accounts, Amounts, SystemWallet DEF Owner, Currency, Kind, SystemUsd, Wallets
<1>5. /\ t.wrote \in SUBSET LedgerEntry /\ IsFiniteSet(t.wrote)
      /\ \A e \in t.wrote : e.tx = <<t.id, SystemUsd[2]>> /\ e.account \in {SystemUsd, x}
      /\ \A a : Explained(OnAccount(t.wrote, a)) = Paid(x, Seed, a) - Paid(SystemUsd, Seed, a)
      /\ \A z : Net(OfLeg(t.wrote, z)) = 0
  <2> HIDE DEF x
  <2>1. Movement(t.wrote, t.id, SystemUsd, x, Seed * Grain)
    BY <1>3, <1>4, MovementBooks
  <2>2. Given(Seed * Grain) = Seed /\ Taken(Seed * Grain) = Seed
    BY <1>4, Units
  <2> QED
    BY <2>1, <2>2 DEF Movement
<1>6. \A a \in DOMAIN b : b[a] \in Nat
  BY PartialIs
<1>7. DOMAIN w = DOMAIN b \cup Wallets(v)
  BY <1>1
<1>8. \A a \in DOMAIN w : w[a] = IF a = SystemUsd THEN b[a] - Seed ELSE IF a \in DOMAIN b THEN b[a] ELSE IF a = x THEN Seed ELSE 0
  BY <1>1
<1> HIDE DEF w, x, S
<1>9. ASSUME NEW a \in DOMAIN w
      PROVE  w[a] = (IF a \in DOMAIN b THEN b[a] ELSE 0) + Explained(OnAccount(t.wrote, a))
  <2>1. Explained(OnAccount(t.wrote, a)) = Paid(x, Seed, a) - Paid(SystemUsd, Seed, a)
    BY <1>5
  <2>2. CASE a = SystemUsd
    BY <1>1, <1>4, <1>6, <1>8, <2>1, <2>2 DEF Paid
  <2>3. CASE a = x
    BY <1>1, <1>4, <1>8, <2>1, <2>3 DEF Paid
  <2>4. CASE a # SystemUsd /\ a # x
    BY <1>6, <1>8, <2>1, <2>4 DEF Paid
  <2> QED
    BY <2>2, <2>3, <2>4
<1>10. \A e \in t.wrote : e.tx[1] = t.id /\ e.account \in DOMAIN w
  BY <1>1, <1>4, <1>5, <1>7
<1> QED
  BY <1>5, <1>9, <1>10 DEF Explains, w

\* Every call does.
LEMMA CommitExplains ==
  ASSUME LedgerInv, OwnEntries, NEW c \in Conn, Commit(c)
  PROVE  Explains(tx[c], balance)
<1> DEFINE t == tx[c]
           call == t.call
           S == Statements(t.call)
<1>1. /\ t \in Transaction /\ balance \in Partial /\ Fits(t, balance) /\ t.todo = <<>> /\ t # Idle
  BY DEF LedgerInv, Commit, Busy
<1>2. call \in Call /\ WellFormed(S) /\ t.id \in 1..MaxCalls
  <2>1. call \in Call /\ WellFormed(S)
    BY <1>1, Finished
  <2> QED
    BY <1>1, <2>1 DEF Fits, FitsAt
<1>3. t.wrote = Booked(t, Len(S))
  <2>1. Len(S) \in Nat /\ Len(t.todo) = 0
    BY <1>1, <1>2 DEF WellFormed
  <2>2. t.wrote = Booked(t, Done(t))
    BY <1>1 DEF OwnEntries
  <2>3. Done(t) = Len(S) - Len(t.todo)
    BY DEF Done
  <2> HIDE DEF S, t
  <2>4. Done(t) = Len(S)
    BY <2>1, <2>3
  <2> QED
    BY <2>2, <2>4
<1>4. CASE call.name \in {"lockEscrow", "releaseEscrow"}
  <2> DEFINE n == Amount(call)
             x == IF call.name = "lockEscrow" THEN Checking(call) ELSE Escrow(call)
             y == IF call.name = "lockEscrow" THEN Escrow(call) ELSE Checking(call)
  <2>1. n \in Nat /\ x \in Account /\ y \in Account /\ x[2] = y[2]
    BY <1>2, <1>4, EscrowCall DEF Checking, Escrow
  <2>2. \/ S = <<SelectForUpdate(x), Require(x, n), SelectForUpdate(y), Debit(x, n), Credit(y, n)>>
        \/ S = <<SelectForUpdate(y), SelectForUpdate(x), Require(x, n), Debit(x, n), Credit(y, n)>>
    <3>1. CASE call.name = "lockEscrow"
      BY <3>1 DEF Statements, LockEscrow
    <3>2. CASE call.name = "releaseEscrow"
      BY <3>2 DEF Statements, ReleaseEscrow
    <3> QED
      BY <1>4, <3>1, <3>2
  <2>3. PICK P : P = Statements(t.call)
    OBVIOUS
  <2> HIDE DEF x, y, n, call
  <2> QED
    BY <1>1, <1>2, <1>3, <2>1, <2>2, <2>3, EscrowExplains
<1>5. CASE call.name = "settleTrade"
  <2> DEFINE x1 == BuyerCash(call)
             y1 == SellerCash(call)
             n1 == call.price * call.quantity
             x2 == SellerAsset(call)
             y2 == BuyerAsset(call)
             n2 == call.quantity
  <2>1. /\ n1 \in Nat /\ n2 \in Nat /\ x1 \in Account /\ y1 \in Account /\ x2 \in Account /\ y2 \in Account
    BY <1>2, <1>5, SettleCall
  <2>2. x1[2] = y1[2] /\ x2[2] = y2[2] /\ x1[2] # x2[2]
    BY DEF BuyerCash, SellerCash, SellerAsset, BuyerAsset
  <2>3. S = <<SelectForUpdate(x1), SelectForUpdate(y1), SelectForUpdate(x2), SelectForUpdate(y2),
              Require(x1, n1), Require(x2, n2),
              Debit(x1, n1), Credit(y1, n1), Debit(x2, n2), Credit(y2, n2)>>
    BY <1>5 DEF Statements, SettleTrade, BuyerCash, SellerCash, SellerAsset, BuyerAsset
  <2>4. t.wrote = Booked(t, 10)
    BY <1>3, <2>3
  <2> HIDE DEF x1, y1, n1, x2, y2, n2, call, t
  <2> QED
    BY <1>1, <1>2, <2>1, <2>2, <2>3, <2>4, SettleExplains, SMTT(60) DEF t
<1>6. CASE call.name = "register"
  <2>1. call.user \in User
    BY <1>2, <1>6, RegisterProgram
  <2>2. S = <<InsertWallets(call.user), Debit(SystemUsd, Seed * Grain), InsertCredit(<<call.user, "USD", "CHECKING">>, Seed * Grain)>>
    BY <1>6 DEF Statements, Register
  <2>3. t.wrote = Booked(t, 3)
    BY <1>3, <2>2
  <2> QED
    BY <1>1, <1>2, <2>1, <2>2, <2>3, RegisterExplains
<1>7. call.name \in {"lockEscrow", "releaseEscrow", "settleTrade", "register"}
  BY <1>2 DEF Call
<1> QED
  BY <1>4, <1>5, <1>6, <1>7

\* The books after a commit are the books before it and what the transaction wrote.
LEMMA CommitBooks ==
  ASSUME BooksInv, NEW c \in Conn, Commit(c), LedgerInv'
  PROVE  BooksInv'
<1> DEFINE t == tx[c]
           new == t.wrote
           w == Overlay(t.work, balance)
<1>1. /\ balance' = w /\ entries' = entries \cup new /\ tx' = [tx EXCEPT ![c] = Idle]
      /\ UNCHANGED <<alarms, calls, faults>> /\ t # Idle
  BY DEF Commit, Busy
<1>2. /\ new \in SUBSET LedgerEntry /\ IsFiniteSet(new)
      /\ \A e \in new : e.tx[1] = t.id /\ e.account \in DOMAIN w
      /\ \A a \in DOMAIN w : w[a] = (IF a \in DOMAIN balance THEN balance[a] ELSE 0) + Explained(OnAccount(new, a))
      /\ \A z : Net(OfLeg(new, z)) = 0
  BY CommitExplains DEF BooksInv, Explains
<1>3. DOMAIN balance \subseteq DOMAIN w /\ DOMAIN Opening \subseteq DOMAIN balance /\ balance \in Partial
  <2>1. t \in Transaction
    BY DEF BooksInv, LedgerInv
  <2>2. t.work \in Partial /\ balance \in Partial /\ DOMAIN Opening \subseteq DOMAIN balance
    BY <2>1 DEF BooksInv, LedgerInv, Transaction
  <2> QED
    BY <2>2, OverPartial
<1>4. /\ entries \in SUBSET LedgerEntry /\ IsFiniteSet(entries)
      /\ \A e \in entries : e.tx[1] # t.id /\ e.account \in DOMAIN balance
  BY <1>1 DEF BooksInv, LedgerInv, OwnEntries, WholeEntries
<1>5. tx' \in [Conn -> Transaction] /\ tx'[c] = Idle /\ \A d \in Conn : d # c => tx'[d] = tx[d]
  BY <1>1 DEF BooksInv, LedgerInv
<1> HIDE DEF w, new
<1>6. IsFiniteSet(entries') /\ entries \cap new = {}
  <2>1. IsFiniteSet(entries \cup new)
    BY <1>2, <1>4, FS_Union
  <2>2. entries \cap new = {}
    BY <1>2, <1>4
  <2> QED
    BY <1>1, <2>1, <2>2
<1>7. ASSUME NEW G, NEW H, G \subseteq entries, H \subseteq new
      PROVE  /\ Net(G \cup H) = Net(G) + Net(H)
             /\ Explained(G \cup H) = Explained(G) + Explained(H) /\ Explained(G) \in Int /\ Explained(H) \in Int
  <2>1. G \in SUBSET LedgerEntry /\ H \in SUBSET LedgerEntry /\ G \cap H = {}
    BY <1>2, <1>4, <1>6, <1>7
  <2>2. IsFiniteSet(G) /\ IsFiniteSet(H)
    BY <1>2, <1>4, <1>7, FS_Subset
  <2> QED
    BY <2>1, <2>2, NetBoth, ExplainedBoth, ExplainedIs
<1>8. ASSUME NEW a \in DOMAIN w
      PROVE  w[a] = (IF a \in DOMAIN Opening THEN Opening[a] ELSE 0) + Explained(OnAccount(entries', a))
  <2>1. OnAccount(entries', a) = OnAccount(entries, a) \cup OnAccount(new, a)
    BY <1>1 DEF OnAccount
  <2>2. OnAccount(entries, a) \subseteq entries /\ OnAccount(new, a) \subseteq new
    BY DEF OnAccount
  <2>3. /\ Explained(OnAccount(entries', a)) = Explained(OnAccount(entries, a)) + Explained(OnAccount(new, a))
        /\ Explained(OnAccount(entries, a)) \in Int /\ Explained(OnAccount(new, a)) \in Int
    BY <1>7, <2>1, <2>2
  <2>4. w[a] = (IF a \in DOMAIN balance THEN balance[a] ELSE 0) + Explained(OnAccount(new, a))
    BY <1>2
  <2>5. CASE a \in DOMAIN balance
    <3>1. balance[a] = (IF a \in DOMAIN Opening THEN Opening[a] ELSE 0) + Explained(OnAccount(entries, a))
      BY <2>5 DEF BooksInv, BalanceMatchesEntries, OnAccount
    <3>2. (IF a \in DOMAIN Opening THEN Opening[a] ELSE 0) \in Int
      BY LedgerAssumption
    <3> QED
      BY <2>3, <2>4, <2>5, <3>1, <3>2
  <2>6. CASE a \notin DOMAIN balance
    <3>1. OnAccount(entries, a) = {}
      BY <1>4, <2>6 DEF OnAccount
    <3> QED
      BY <1>3, <2>3, <2>4, <2>6, <3>1, ExplainedNothing
  <2> QED
    BY <2>5, <2>6
<1>9. BalanceMatchesEntries'
  BY <1>1, <1>8 DEF BalanceMatchesEntries, OnAccount
<1>10. \A e \in entries' : Net(OfLeg(entries', e.tx)) = 0
  <2> TAKE e \in entries'
  <2>1. OfLeg(entries', e.tx) = OfLeg(entries, e.tx) \cup OfLeg(new, e.tx)
    BY <1>1 DEF OfLeg
  <2>2. OfLeg(entries, e.tx) \subseteq entries /\ OfLeg(new, e.tx) \subseteq new
    BY DEF OfLeg
  <2>3. Net(OfLeg(entries', e.tx)) = Net(OfLeg(entries, e.tx)) + Net(OfLeg(new, e.tx))
    BY <1>7, <2>1, <2>2
  <2>4. Net(OfLeg(new, e.tx)) = 0
    BY <1>2
  <2>5. Net(OfLeg(entries, e.tx)) = 0
    <3>1. CASE e \in entries
      BY <3>1 DEF BooksInv, WholeEntries, OfLeg
    <3>2. CASE e \in new
      <4>1. OfLeg(entries, e.tx) = {}
        BY <1>2, <1>4, <3>2 DEF OfLeg
      <4> QED
        BY <4>1, NetNothing
    <3> QED
      BY <1>1, <3>1, <3>2
  <2> QED
    BY <2>3, <2>4, <2>5
<1>11. WholeEntries'
  <2>1. t.id \in 1..calls
    BY <1>1 DEF BooksInv, OwnEntries
  <2>2. \A e \in entries' : e.tx[1] \in 1..calls' /\ e.account \in DOMAIN balance'
    BY <1>1, <1>2, <1>3, <2>1 DEF BooksInv, WholeEntries
  <2> QED
    BY <1>6, <1>10, <2>2 DEF WholeEntries, OfLeg
<1>12. OwnEntries'
  <2> SUFFICES ASSUME NEW d \in Conn, tx'[d] # Idle
               PROVE  /\ tx'[d].id \in 1..calls' /\ tx'[d].wrote = Booked(tx'[d], Done(tx'[d]))
                      /\ \A e \in Conn : e # d /\ tx'[e] # Idle => tx'[e].id # tx'[d].id
                      /\ \A e \in entries' : e.tx[1] # tx'[d].id
    BY DEF OwnEntries
  <2>1. d # c /\ tx'[d] = tx[d] /\ tx[d] # Idle
    BY <1>5
  <2>2. /\ tx[d].id \in 1..calls /\ tx[d].wrote = Booked(tx[d], Done(tx[d])) /\ tx[d].id # t.id
        /\ \A e \in Conn : e # d /\ tx[e] # Idle => tx[e].id # tx[d].id
        /\ \A e \in entries : e.tx[1] # tx[d].id
    BY <1>1, <2>1 DEF BooksInv, OwnEntries
  <2>3. \A e \in entries' : e.tx[1] # tx[d].id
    BY <1>1, <1>2, <2>2
  <2> QED
    BY <1>1, <1>5, <2>1, <2>2, <2>3
<1>13. NoMismatch'
  BY <1>1 DEF BooksInv, NoMismatch
<1> QED
  BY <1>9, <1>11, <1>12, <1>13 DEF BooksInv

\* A step of one transaction that commits nothing leaves the books alone.
LEMMA OneTransactionBooks ==
  ASSUME BooksInv, LedgerInv', NEW c \in Conn, NEW u, tx' = [tx EXCEPT ![c] = u],
         u # Idle => tx[c] # Idle /\ u.id = tx[c].id /\ u.wrote = Booked(u, Done(u)),
         UNCHANGED <<balance, entries, alarms, calls>>
  PROVE  BooksInv'
<1>1. tx'[c] = u /\ \A d \in Conn : d # c => tx'[d] = tx[d]
  BY DEF BooksInv, LedgerInv
<1>2. \A d \in Conn : tx'[d] # Idle => tx[d] # Idle /\ tx'[d].id = tx[d].id /\ tx'[d].wrote = Booked(tx'[d], Done(tx'[d]))
  <2> TAKE d \in Conn
  <2>1. CASE d = c
    BY <1>1, <2>1
  <2>2. CASE d # c
    BY <1>1, <2>2 DEF BooksInv, OwnEntries
  <2> QED
    BY <2>1, <2>2
<1>3. OwnEntries'
  <2> SUFFICES ASSUME NEW d \in Conn, tx'[d] # Idle
               PROVE  /\ tx'[d].id \in 1..calls /\ tx'[d].wrote = Booked(tx'[d], Done(tx'[d]))
                      /\ \A e \in Conn : e # d /\ tx'[e] # Idle => tx'[e].id # tx'[d].id
                      /\ \A e \in entries : e.tx[1] # tx'[d].id
    BY DEF OwnEntries
  <2>1. tx[d] # Idle /\ tx'[d].id = tx[d].id
    BY <1>2
  <2> QED
    BY <1>2, <2>1 DEF BooksInv, OwnEntries
<1>4. WholeEntries' /\ BalanceMatchesEntries' /\ NoMismatch'
  BY DEF BooksInv, WholeEntries, BalanceMatchesEntries, NoMismatch
<1> QED
  BY <1>3, <1>4 DEF BooksInv

LEMMA Counted ==
  ASSUME NEW n \in Int, NEW k \in Nat, NEW l, NEW m, l = n - k, m = l - 1
  PROVE  n - l = k /\ n - m = k + 1
OBVIOUS

\* Where a transaction is in its program.
LEMMA Progress ==
  ASSUME LedgerInv, NEW c \in Conn, tx[c].todo # <<>>
  PROVE  LET t == tx[c]
             S == Statements(t.call)
         IN  /\ t.call \in Call /\ WellFormed(S) /\ Now(c) = S[Done(t) + 1]
             /\ Done(t) \in Nat /\ Done(t) + 1 \in 1..Len(S) /\ FitsAt(t, balance, Done(t))
             /\ Now(c) \in Statement
             /\ \A u : u.call = t.call /\ u.todo = Tail(t.todo) => Done(u) = Done(t) + 1
<1> DEFINE t == tx[c]
           S == Statements(t.call)
<1>1. t \in Transaction /\ Fits(t, balance)
  BY Working
<1>2. PICK k \in Nat : FitsAt(t, balance, k)
  BY <1>1 DEF Fits
<1>3. /\ Len(S) \in 1..10 /\ k \in 0..Len(S) /\ k < Len(S) /\ Head(t.todo) = S[k + 1] /\ WellFormed(S)
      /\ S[k + 1] \in Statement
  BY <1>1, <1>2, Facing
<1>4. Len(t.todo) = Len(S) - k /\ Len(Tail(t.todo)) = Len(t.todo) - 1
  <2>1. t.todo \in Seq(Statement)
    BY <1>1 DEF Transaction
  <2> QED
    BY <1>2, <2>1 DEF FitsAt
<1> HIDE DEF S
<1>5. Done(t) = k /\ \A u : u.call = t.call /\ u.todo = Tail(t.todo) => Done(u) = k + 1
  <2>1. Done(t) = Len(S) - Len(t.todo) /\ \A u : u.call = t.call /\ u.todo = Tail(t.todo) => Done(u) = Len(S) - Len(Tail(t.todo))
    BY DEF Done, S
  <2>2. Len(S) \in Int
    BY <1>3
  <2>3. PICK n, l, m : n = Len(S) /\ l = Len(t.todo) /\ m = Len(Tail(t.todo))
    OBVIOUS
  <2>4. n \in Int /\ l = n - k /\ m = l - 1
    BY <1>4, <2>2, <2>3
  <2>5. n - l = k /\ n - m = k + 1
    BY <2>4, Counted
  <2> QED
    BY <2>1, <2>3, <2>5, Zenon
<1>6. k + 1 \in 1..Len(S)
  BY <1>3
<1>7. t.call \in Call /\ Now(c) = S[k + 1]
  BY <1>2, <1>3 DEF FitsAt, Now
<1> QED
  BY <1>2, <1>3, <1>5, <1>6, <1>7 DEF S

\* What one more statement writes.
LEMMA OneMoreBooked ==
  ASSUME LedgerInv, OwnEntries, NEW c \in Conn, tx[c].todo # <<>>, NEW u,
         u.call = tx[c].call, u.id = tx[c].id, u.todo = Tail(tx[c].todo),
         u.wrote = IF Now(c).op \in Writes THEN tx[c].wrote \cup {EntryOf(tx[c].id, Now(c))} ELSE tx[c].wrote
  PROVE  u.wrote = Booked(u, Done(u)) /\ tx[c] # Idle
<1> DEFINE t == tx[c]
           S == Statements(t.call)
           k == Done(t)
<1>1. t # Idle
  BY DEF Idle
<1>2. k \in Nat /\ Done(u) = k + 1 /\ Now(c) = S[k + 1]
  BY Progress
<1> HIDE DEF S
<1>3. t.wrote = Booked(t, k)
  BY <1>1 DEF OwnEntries
<1> HIDE DEF k
<1>4. \A j : j \in 1..(k + 1) <=> j \in 1..k \/ j = k + 1
  BY <1>2
<1>5. Booked(u, k + 1) = {EntryOf(t.id, S[i]) : i \in {j \in 1..(k + 1) : S[j].op \in Writes}}
  BY DEF Booked, S
<1>6. Booked(t, k) = {EntryOf(t.id, S[i]) : i \in {j \in 1..k : S[j].op \in Writes}}
  BY DEF Booked, S
<1>7. CASE Now(c).op \in Writes
  <2>1. {j \in 1..(k + 1) : S[j].op \in Writes} = {j \in 1..k : S[j].op \in Writes} \cup {k + 1}
    BY <1>2, <1>4, <1>7
  <2>2. Booked(u, k + 1) = Booked(t, k) \cup {EntryOf(t.id, S[k + 1])}
    BY <1>5, <1>6, <2>1
  <2> QED
    BY <1>1, <1>2, <1>3, <1>7, <2>2
<1>8. CASE Now(c).op \notin Writes
  <2>1. {j \in 1..(k + 1) : S[j].op \in Writes} = {j \in 1..k : S[j].op \in Writes}
    BY <1>2, <1>4, <1>8
  <2> QED
    BY <1>1, <1>2, <1>3, <1>5, <1>6, <1>8, <2>1
<1> QED
  BY <1>7, <1>8

LEMMA StepBooks ==
  ASSUME BooksInv, LedgerInv', NEW c \in Conn,
         GetAccountLocked(c) \/ VerifyFunds(c) \/ UpdateBalance(c) \/ InsertEntry(c) \/ CreateWallets(c)
  PROVE  BooksInv'
<1> DEFINE t == tx[c]
<1>1. t.todo # <<>> /\ UNCHANGED <<balance, entries, alarms, calls>>
  BY DEF GetAccountLocked, VerifyFunds, UpdateBalance, InsertEntry, CreateWallets, Running, Rollback
<1>2. t \in Transaction
  BY DEF BooksInv, LedgerInv
<1>3. CASE Rollback(c)
  BY <1>1, <1>3, OneTransactionBooks DEF Rollback
<1>4. ASSUME NEW u, tx' = [tx EXCEPT ![c] = u],
             u.call = t.call, u.id = t.id, u.todo = Tail(t.todo),
             u.wrote = IF Now(c).op \in Writes THEN t.wrote \cup {EntryOf(t.id, Now(c))} ELSE t.wrote
      PROVE  BooksInv'
  <2>1. u.wrote = Booked(u, Done(u)) /\ tx[c] # Idle
    BY <1>1, <1>4, OneMoreBooked DEF BooksInv
  <2> QED
    BY <1>1, <1>4, <2>1, OneTransactionBooks
<1>5. CASE GetAccountLocked(c) /\ ~Rollback(c)
  <2> DEFINE u == [t EXCEPT !.locks = @ \cup {Now(c).row},
                            !.seen = Overlay(Version(Now(c).row, Visible(c, Now(c).row)), @), !.todo = Tail(@)]
  <2>1. tx' = [tx EXCEPT ![c] = u] /\ Now(c).op = "lock"
    BY <1>5 DEF GetAccountLocked, Running, BooksInv, LedgerInv
  <2>2. u.call = t.call /\ u.id = t.id /\ u.todo = Tail(t.todo) /\ u.wrote = t.wrote
    BY <1>2 DEF Transaction
  <2> HIDE DEF u
  <2> QED
    BY <1>4, <2>1, <2>2 DEF Writes
<1>6. CASE VerifyFunds(c) /\ ~Rollback(c)
  <2> DEFINE u == [t EXCEPT !.todo = Tail(@)]
  <2>1. tx' = [tx EXCEPT ![c] = u] /\ Now(c).op = "check"
    BY <1>6 DEF VerifyFunds, Running, BooksInv, LedgerInv
  <2>2. u.call = t.call /\ u.id = t.id /\ u.todo = Tail(t.todo) /\ u.wrote = t.wrote
    BY <1>2 DEF Transaction
  <2> HIDE DEF u
  <2> QED
    BY <1>4, <2>1, <2>2 DEF Writes
<1>7. CASE UpdateBalance(c) /\ ~Rollback(c)
  <2> DEFINE a == Now(c).row
             n == NewBalance(c, Visible(c, a))
             e == Entry(c, IF Now(c).op = "debit" THEN "DEBIT" ELSE "CREDIT")
             u == [t EXCEPT !.locks = @ \cup {a}, !.work = Overlay(Version(a, n), @), !.todo = Tail(@),
                            !.wrote = @ \cup {e}]
  <2>1. tx' = [tx EXCEPT ![c] = u] /\ Now(c).op \in {"debit", "credit"}
    BY <1>7 DEF UpdateBalance, Running, BooksInv, LedgerInv
  <2>2. u.call = t.call /\ u.id = t.id /\ u.todo = Tail(t.todo) /\ u.wrote = t.wrote \cup {e}
    BY <1>2 DEF Transaction
  <2>3. e = EntryOf(t.id, Now(c))
    BY DEF Entry, EntryOf
  <2> HIDE DEF u, e, n
  <2> QED
    BY <1>4, <2>1, <2>2, <2>3 DEF Writes
<1>8. CASE InsertEntry(c) /\ ~Rollback(c)
  <2> DEFINE u == [t EXCEPT !.todo = Tail(@), !.wrote = @ \cup {Entry(c, "CREDIT")}]
  <2>1. tx' = [tx EXCEPT ![c] = u] /\ Now(c).op = "entry"
    BY <1>8 DEF InsertEntry, Running, BooksInv, LedgerInv
  <2>2. u.call = t.call /\ u.id = t.id /\ u.todo = Tail(t.todo) /\ u.wrote = t.wrote \cup {Entry(c, "CREDIT")}
    BY <1>2 DEF Transaction
  <2>3. Entry(c, "CREDIT") = EntryOf(t.id, Now(c))
    BY <2>1 DEF Entry, EntryOf
  <2> HIDE DEF u
  <2> QED
    BY <1>4, <2>1, <2>2, <2>3 DEF Writes
<1>9. CASE CreateWallets(c) /\ ~Rollback(c)
  <2> DEFINE new == Wallets(Now(c).row[1])
             u == [t EXCEPT !.locks = @ \cup new, !.todo = Tail(@),
                            !.work = Overlay([a \in new |-> OpeningBalance(Now(c), a)], @)]
  <2>1. tx' = [tx EXCEPT ![c] = u] /\ Now(c).op = "open"
    BY <1>9 DEF CreateWallets, Running, BooksInv, LedgerInv
  <2>2. u.call = t.call /\ u.id = t.id /\ u.todo = Tail(t.todo) /\ u.wrote = t.wrote
    BY <1>2 DEF Transaction
  <2> HIDE DEF u
  <2> QED
    BY <1>4, <2>1, <2>2 DEF Writes
<1> QED
  BY <1>3, <1>5, <1>6, <1>7, <1>8, <1>9

LEMMA BeginBooks ==
  ASSUME BooksInv, LedgerInv', NEW c \in Conn, NEW call \in Call, Begin(c, call)
  PROVE  BooksInv'
<1> DEFINE u == [Idle EXCEPT !.call = call, !.id = calls + 1, !.todo = Statements(call)]
<1>1. u.call = call /\ u.id = calls + 1 /\ u.todo = Statements(call) /\ u.wrote = {}
  BY DEF Idle
<1>2. /\ tx' = [tx EXCEPT ![c] = u] /\ calls' = calls + 1 /\ calls \in Nat
      /\ UNCHANGED <<balance, entries, alarms, faults>>
  BY DEF Begin, BooksInv, LedgerInv
<1> HIDE DEF u
<1>3. tx'[c] = u /\ \A d \in Conn : d # c => tx'[d] = tx[d]
  BY <1>2 DEF BooksInv, LedgerInv
<1>4. Booked(u, Done(u)) = {}
  <2>1. Len(Statements(call)) \in Nat
    BY Programs DEF WellFormed
  <2>2. Done(u) = 0
    BY <1>1, <2>1 DEF Done
  <2>3. 1..0 = {}
    OBVIOUS
  <2> QED
    BY <2>2, <2>3 DEF Booked
<1>5. \A d \in Conn : d # c /\ tx[d] # Idle => tx[d].id \in 1..calls
  BY DEF BooksInv, OwnEntries
<1>6. \A e \in entries : e.tx[1] \in 1..calls
  BY DEF BooksInv, WholeEntries
<1>7. OwnEntries'
  <2> SUFFICES ASSUME NEW d \in Conn, tx'[d] # Idle
               PROVE  /\ tx'[d].id \in 1..calls' /\ tx'[d].wrote = Booked(tx'[d], Done(tx'[d]))
                      /\ \A e \in Conn : e # d /\ tx'[e] # Idle => tx'[e].id # tx'[d].id
                      /\ \A e \in entries : e.tx[1] # tx'[d].id
    BY <1>2 DEF OwnEntries
  <2>1. CASE d = c
    <3>1. tx'[d] = u /\ u.id = calls + 1 /\ calls + 1 \in 1..calls'
      BY <1>1, <1>2, <1>3, <2>1
    <3>2. tx'[d].wrote = Booked(tx'[d], Done(tx'[d]))
      BY <1>1, <1>4, <3>1
    <3>3. \A e \in Conn : e # d /\ tx'[e] # Idle => tx'[e].id # calls + 1
      <4> SUFFICES ASSUME NEW e \in Conn, e # d, tx'[e] # Idle PROVE tx'[e].id # calls + 1
        OBVIOUS
      <4>1. tx'[e] = tx[e] /\ tx[e].id \in 1..calls
        BY <1>3, <1>5, <2>1
      <4> QED
        BY <1>2, <4>1
    <3>4. \A e \in entries : e.tx[1] # calls + 1
      BY <1>2, <1>6
    <3> QED
      BY <1>2, <3>1, <3>2, <3>3, <3>4
  <2>2. CASE d # c
    <3>1. /\ tx'[d] = tx[d] /\ tx[d] # Idle /\ tx[d].id \in 1..calls /\ tx[d].wrote = Booked(tx[d], Done(tx[d]))
          /\ \A e \in Conn : e # d /\ tx[e] # Idle => tx[e].id # tx[d].id
          /\ \A e \in entries : e.tx[1] # tx[d].id
      BY <1>3, <2>2 DEF BooksInv, OwnEntries
    <3>2. \A e \in Conn : e # d /\ tx'[e] # Idle => tx'[e].id # tx[d].id
      BY <1>1, <1>2, <1>3, <3>1
    <3> QED
      BY <1>2, <3>1, <3>2
  <2> QED
    BY <2>1, <2>2
<1>8. WholeEntries'
  <2>1. \A e \in entries : e.tx[1] \in 1..calls'
    BY <1>2, <1>6
  <2> QED
    BY <1>2, <2>1 DEF BooksInv, WholeEntries
<1>9. BalanceMatchesEntries' /\ NoMismatch'
  BY <1>2 DEF BooksInv, BalanceMatchesEntries, NoMismatch
<1> QED
  BY <1>7, <1>8, <1>9 DEF BooksInv

\* The jobs find nothing to report but imbalances.
LEMMA JobBooks ==
  ASSUME BooksInv, LedgerInv', RunReconciliationJob \/ VerifyInvariants
  PROVE  BooksInv'
<1>1. Negative = {}
  <2>1. \A a \in DOMAIN balance : balance[a] \in Nat
    BY PartialIs DEF BooksInv, LedgerInv
  <2> QED
    BY <2>1 DEF Negative
<1>2. {e \in entries : Net({f \in entries : f.tx = e.tx}) # 0} = {}
  BY DEF BooksInv, WholeEntries
<1>3. alarms' \subseteq alarms \cup {"imbalance"} /\ UNCHANGED <<balance, entries, tx, calls, faults>>
  BY <1>1, <1>2 DEF RunReconciliationJob, VerifyInvariants, Report
<1>4. NoMismatch'
  BY <1>3 DEF BooksInv, NoMismatch
<1>5. OwnEntries' /\ WholeEntries' /\ BalanceMatchesEntries'
  BY <1>3 DEF BooksInv, OwnEntries, WholeEntries, BalanceMatchesEntries
<1> QED
  BY <1>4, <1>5 DEF BooksInv

LEMMA BooksStep == BooksInv /\ [Next]_vars => BooksInv'
<1> SUFFICES ASSUME BooksInv, [Next]_vars PROVE BooksInv'
  OBVIOUS
<1>1. LedgerInv'
  BY LedgerStep DEF BooksInv
<1>2. ASSUME NEW c \in Conn, NEW call \in Call, Begin(c, call) PROVE BooksInv'
  BY <1>1, <1>2, BeginBooks
<1>3. ASSUME NEW c \in Conn, Step(c) PROVE BooksInv'
  BY <1>1, <1>3, StepBooks, CommitBooks DEF Step
<1>4. ASSUME NEW c \in Conn, Fault(c) \/ AbortDeadlocked(c) PROVE BooksInv'
  BY <1>1, <1>4, OneTransactionBooks DEF Fault, AbortDeadlocked, Rollback
<1>5. CASE RunReconciliationJob \/ VerifyInvariants
  BY <1>1, <1>5, JobBooks
<1>6. CASE UNCHANGED vars
  BY <1>1, <1>6 DEF vars, BooksInv, OwnEntries, WholeEntries, BalanceMatchesEntries, NoMismatch
<1> QED
  BY <1>2, <1>3, <1>4, <1>5, <1>6 DEF Next

\* The balances that are updated in place are what the entries add up to and the units that
\* debits ending in a half have left behind, and the nightly job has nothing to report,
\* whatever the calls, their amounts, their interleaving and their failures.
THEOREM LedgerBalances == Spec => []BalancesHold
<1>1. Init => BooksInv
  <2> SUFFICES ASSUME Init PROVE BooksInv
    OBVIOUS
  <2>1. balance = Opening /\ entries = {} /\ alarms = {} /\ \A c \in Conn : tx[c] = Idle
    BY DEF Init
  <2>2. OwnEntries /\ WholeEntries /\ NoMismatch
    BY <2>1, FS_EmptySet DEF OwnEntries, WholeEntries, NoMismatch
  <2>3. BalanceMatchesEntries
    <3>1. \A a \in DOMAIN Opening : Opening[a] \in Nat
      BY LedgerAssumption
    <3>2. \A a : {e \in entries : e.account = a} = {}
      BY <2>1
    <3> QED
      BY <2>1, <3>1, <3>2, ExplainedNothing DEF BalanceMatchesEntries
  <2> QED
    BY <2>2, <2>3, LedgerInit DEF BooksInv
<1>2. BooksInv => BalancesHold
  BY LedgerInvTyped DEF BooksInv, BalancesHold
<1> QED
  BY <1>1, <1>2, BooksStep, PTL DEF Spec

\* ---- two calls that wait for each other ----

\* The rows that a statement takes, and those of the statements that a transaction has run.
Takes(s) == CASE s.op = "open" -> Wallets(s.row[1])
              [] s.op \in {"lock", "debit", "credit"} -> {s.row}
              [] s.op \in {"check", "entry"} -> {}
Holding ==
    \A c \in Conn : \A r \in tx[c].locks :
        \E i \in 1..Done(tx[c]) : r \in Takes(Statements(tx[c].call)[i])

LEMMA OneMoreHeld ==
  ASSUME LedgerInv, Holding, NEW c \in Conn, tx[c].todo # <<>>, NEW u, tx' = [tx EXCEPT ![c] = u],
         u.call = tx[c].call, u.todo = Tail(tx[c].todo), u.locks \subseteq tx[c].locks \cup Takes(Now(c))
  PROVE  Holding'
<1> DEFINE t == tx[c]
           S == Statements(t.call)
<1>1. tx'[c] = u /\ \A d \in Conn : d # c => tx'[d] = tx[d]
  BY DEF LedgerInv
<1>2. Now(c) = S[Done(t) + 1] /\ Done(t) \in Nat /\ Done(u) = Done(t) + 1
  BY Progress
<1>3. ASSUME NEW r \in u.locks PROVE \E i \in 1..Done(u) : r \in Takes(Statements(u.call)[i])
  <2>1. CASE r \in t.locks
    <3>1. PICK i \in 1..Done(t) : r \in Takes(S[i])
      BY <2>1 DEF Holding
    <3>2. i \in 1..Done(u)
      BY <1>2
    <3> QED
      BY <3>1, <3>2
  <2>2. CASE r \in Takes(Now(c))
    <3>1. Done(u) \in 1..Done(u)
      BY <1>2
    <3> QED
      BY <1>2, <2>2, <3>1
  <2> QED
    BY <2>1, <2>2
<1> QED
  BY <1>1, <1>3 DEF Holding

LEMMA NoneHeld ==
  ASSUME LedgerInv, Holding, NEW c \in Conn, NEW u, tx' = [tx EXCEPT ![c] = u], u.locks = {}
  PROVE  Holding'
<1>1. tx'[c] = u /\ \A d \in Conn : d # c => tx'[d] = tx[d]
  BY DEF LedgerInv
<1> QED
  BY <1>1 DEF Holding

LEMMA RollbackHolding ==
  ASSUME LedgerInv, Holding, NEW c \in Conn, Rollback(c) \/ tx' = [tx EXCEPT ![c] = Idle]
  PROVE  Holding'
<1>1. tx' = [tx EXCEPT ![c] = Idle] /\ Idle.locks = {}
  BY DEF Rollback, Idle
<1> QED
  BY <1>1, NoneHeld

LEMMA StepHolding ==
  ASSUME LedgerInv, Holding, NEW c \in Conn,
         GetAccountLocked(c) \/ VerifyFunds(c) \/ UpdateBalance(c) \/ InsertEntry(c) \/ CreateWallets(c)
  PROVE  Holding'
<1> DEFINE t == tx[c]
<1>1. t.todo # <<>> /\ t \in Transaction
  BY DEF GetAccountLocked, VerifyFunds, UpdateBalance, InsertEntry, CreateWallets, Running, LedgerInv
<1>2. CASE Rollback(c)
  BY <1>2, RollbackHolding
<1>3. CASE GetAccountLocked(c) /\ ~Rollback(c)
  <2> DEFINE u == [t EXCEPT !.locks = @ \cup {Now(c).row},
                            !.seen = Overlay(Version(Now(c).row, Visible(c, Now(c).row)), @), !.todo = Tail(@)]
  <2>1. tx' = [tx EXCEPT ![c] = u] /\ Now(c).op = "lock"
    BY <1>3 DEF GetAccountLocked, Running, LedgerInv
  <2>2. u.call = t.call /\ u.todo = Tail(t.todo) /\ u.locks = t.locks \cup {Now(c).row}
    BY <1>1 DEF Transaction
  <2>3. Takes(Now(c)) = {Now(c).row}
    BY <2>1 DEF Takes
  <2> HIDE DEF u
  <2> QED
    BY <1>1, <2>1, <2>2, <2>3, OneMoreHeld
<1>4. CASE VerifyFunds(c) /\ ~Rollback(c)
  <2> DEFINE u == [t EXCEPT !.todo = Tail(@)]
  <2>1. tx' = [tx EXCEPT ![c] = u]
    BY <1>4 DEF VerifyFunds, LedgerInv
  <2>2. u.call = t.call /\ u.todo = Tail(t.todo) /\ u.locks = t.locks
    BY <1>1 DEF Transaction
  <2> HIDE DEF u
  <2> QED
    BY <1>1, <2>1, <2>2, OneMoreHeld
<1>5. CASE UpdateBalance(c) /\ ~Rollback(c)
  <2> DEFINE a == Now(c).row
             n == NewBalance(c, Visible(c, a))
             e == Entry(c, IF Now(c).op = "debit" THEN "DEBIT" ELSE "CREDIT")
             u == [t EXCEPT !.locks = @ \cup {a}, !.work = Overlay(Version(a, n), @), !.todo = Tail(@),
                            !.wrote = @ \cup {e}]
  <2>1. tx' = [tx EXCEPT ![c] = u] /\ Now(c).op \in {"debit", "credit"}
    BY <1>5 DEF UpdateBalance, Running, LedgerInv
  <2>2. u.call = t.call /\ u.todo = Tail(t.todo) /\ u.locks = t.locks \cup {a}
    BY <1>1 DEF Transaction
  <2>3. Takes(Now(c)) = {a}
    BY <2>1 DEF Takes
  <2> HIDE DEF u, a
  <2> QED
    BY <1>1, <2>1, <2>2, <2>3, OneMoreHeld
<1>6. CASE InsertEntry(c) /\ ~Rollback(c)
  <2> DEFINE u == [t EXCEPT !.todo = Tail(@), !.wrote = @ \cup {Entry(c, "CREDIT")}]
  <2>1. tx' = [tx EXCEPT ![c] = u]
    BY <1>6 DEF InsertEntry, LedgerInv
  <2>2. u.call = t.call /\ u.todo = Tail(t.todo) /\ u.locks = t.locks
    BY <1>1 DEF Transaction
  <2> HIDE DEF u
  <2> QED
    BY <1>1, <2>1, <2>2, OneMoreHeld
<1>7. CASE CreateWallets(c) /\ ~Rollback(c)
  <2> DEFINE new == Wallets(Now(c).row[1])
             u == [t EXCEPT !.locks = @ \cup new, !.todo = Tail(@),
                            !.work = Overlay([a \in new |-> OpeningBalance(Now(c), a)], @)]
  <2>1. tx' = [tx EXCEPT ![c] = u] /\ Now(c).op = "open"
    BY <1>7 DEF CreateWallets, Running, LedgerInv
  <2>2. u.call = t.call /\ u.todo = Tail(t.todo) /\ u.locks = t.locks \cup new
    BY <1>1 DEF Transaction
  <2>3. Takes(Now(c)) = new
    BY <2>1 DEF Takes
  <2> HIDE DEF u, new
  <2> QED
    BY <1>1, <2>1, <2>2, <2>3, OneMoreHeld
<1> QED
  BY <1>2, <1>3, <1>4, <1>5, <1>6, <1>7

LEMMA NextHolding == LedgerInv /\ Holding /\ [Next]_vars => Holding'
<1> SUFFICES ASSUME LedgerInv, Holding, [Next]_vars PROVE Holding'
  OBVIOUS
<1>1. ASSUME NEW c \in Conn, NEW call \in Call, Begin(c, call) PROVE Holding'
  <2>1. PICK u : u = [Idle EXCEPT !.call = call, !.id = calls + 1, !.todo = Statements(call)]
    OBVIOUS
  <2>2. tx' = [tx EXCEPT ![c] = u] /\ u.locks = {}
    BY <1>1, <2>1 DEF Begin, Idle
  <2> QED
    BY <2>2, NoneHeld
<1>2. ASSUME NEW c \in Conn, Step(c) PROVE Holding'
  <2>1. CASE Commit(c)
    BY <2>1, RollbackHolding DEF Commit
  <2> QED
    BY <1>2, <2>1, StepHolding DEF Step
<1>3. ASSUME NEW c \in Conn, Fault(c) \/ AbortDeadlocked(c) PROVE Holding'
  BY <1>3, RollbackHolding DEF Fault, AbortDeadlocked
<1>4. CASE UNCHANGED tx
  BY <1>4 DEF Holding
<1> QED
  BY <1>1, <1>2, <1>3, <1>4 DEF Next, RunReconciliationJob, VerifyInvariants, Report, vars

\* The pairs of rows that a call locks one after the other.
LockOrder(call) ==
    IF call.name = "settleTrade"
    THEN {<<BuyerCash(call), SellerCash(call)>>, <<BuyerCash(call), SellerAsset(call)>>,
          <<BuyerCash(call), BuyerAsset(call)>>, <<SellerCash(call), SellerAsset(call)>>,
          <<SellerCash(call), BuyerAsset(call)>>, <<SellerAsset(call), BuyerAsset(call)>>}
    ELSE {<<Checking(call), Escrow(call)>>}

\* An escrow call and a settlement of a user's trade with himself lock one pair of rows in
\* opposite orders, and no other two calls do.
LEMMA OppositeOrders ==
  ASSUME NEW x \in Call, NEW y \in Call, x.name # "register", y.name # "register", NEW p, NEW q, p # q,
         <<q, p>> \in LockOrder(x), <<p, q>> \in LockOrder(y)
  PROVE  \E z \in {x, y} : z.name = "settleTrade" /\ z.buyer = z.seller
<1>1. \A z \in {x, y} : z.name # "settleTrade" => z.name \in {"lockEscrow", "releaseEscrow"} /\ z.user \in User
  BY DEF Call
<1>2. System \notin User
  BY LedgerAssumption
<1>3. CASE x.name # "settleTrade" /\ y.name # "settleTrade"
  BY <1>3 DEF LockOrder, Checking, Escrow
<1>4. CASE x.name = "settleTrade" /\ y.name # "settleTrade"
  <2>1. y.user # System
    BY <1>1, <1>2, <1>4
  <2> QED
    BY <1>4, <2>1 DEF LockOrder, Checking, Escrow, BuyerCash, SellerCash, SellerAsset, BuyerAsset
<1>5. CASE x.name # "settleTrade" /\ y.name = "settleTrade"
  <2>1. x.user # System
    BY <1>1, <1>2, <1>5
  <2> QED
    BY <1>5, <2>1 DEF LockOrder, Checking, Escrow, BuyerCash, SellerCash, SellerAsset, BuyerAsset
<1>6. CASE x.name = "settleTrade" /\ y.name = "settleTrade"
  BY <1>6 DEF LockOrder, BuyerCash, SellerCash, SellerAsset, BuyerAsset
<1> QED
  BY <1>3, <1>4, <1>5, <1>6

Earlier(S, q, p) ==
    \E j \in 1..Len(S) : \E i \in 1..(j - 1) :
        S[i].op = "lock" /\ S[i].row = q /\ S[j].op = "lock" /\ S[j].row = p

LEMMA LockOrderIs ==
  ASSUME NEW call \in Call, call.name # "register", NEW q, NEW p, Earlier(Statements(call), q, p)
  PROVE  <<q, p>> \in LockOrder(call)
<1>1. CASE call.name \in {"lockEscrow", "releaseEscrow"}
  <2> DEFINE a == Checking(call)
             b == Escrow(call)
             n == Amount(call)
  <2>1. \/ Statements(call) = <<SelectForUpdate(a), Require(a, n), SelectForUpdate(b), Debit(a, n), Credit(b, n)>>
        \/ Statements(call) = <<SelectForUpdate(a), SelectForUpdate(b), Require(b, n), Debit(b, n), Credit(a, n)>>
    BY <1>1 DEF Statements, LockEscrow, ReleaseEscrow
  <2>2. LockOrder(call) = {<<a, b>>}
    BY <1>1 DEF LockOrder
  <2> DEFINE S == Statements(call)
  <2>3. /\ Len(S) = 5 /\ \A i \in 4..5 : S[i].op # "lock"
        /\ \A i \in 1..3 : S[i].op = "lock" => S[i].row = IF i = 1 THEN a ELSE b
        /\ S[2].op # "lock" \/ S[3].op # "lock"
    <3> HIDE DEF a, b, n
    <3>1. CASE S = <<SelectForUpdate(a), Require(a, n), SelectForUpdate(b), Debit(a, n), Credit(b, n)>>
      BY <3>1 DEF SelectForUpdate, Require, Debit, Credit
    <3>2. CASE S = <<SelectForUpdate(a), SelectForUpdate(b), Require(b, n), Debit(b, n), Credit(a, n)>>
      BY <3>2 DEF SelectForUpdate, Require, Debit, Credit
    <3> QED
      BY <2>1, <3>1, <3>2
  <2> HIDE DEF a, b, n, S
  <2>4. PICK j \in 1..5 : \E i \in 1..(j - 1) :
               S[i].op = "lock" /\ S[i].row = q /\ S[j].op = "lock" /\ S[j].row = p
    BY <2>3 DEF Earlier, S
  <2>5. PICK i \in 1..(j - 1) : S[i].op = "lock" /\ S[i].row = q /\ S[j].op = "lock" /\ S[j].row = p
    BY <2>4
  <2>6. j \in 2..3
    BY <2>3, <2>4
  <2>7. i = 1
    BY <2>3, <2>5, <2>6
  <2>8. q = a /\ p = b
    BY <2>3, <2>5, <2>6, <2>7
  <2> QED
    BY <2>2, <2>8
<1>2. CASE call.name = "settleTrade"
  <2> DEFINE a == BuyerCash(call)
             b == SellerCash(call)
             x == SellerAsset(call)
             y == BuyerAsset(call)
             n == call.price * call.quantity
             m == call.quantity
  <2>1. Statements(call) = <<SelectForUpdate(a), SelectForUpdate(b), SelectForUpdate(x), SelectForUpdate(y),
                  Require(a, n), Require(x, m), Debit(a, n), Credit(b, n), Debit(x, m), Credit(y, m)>>
    BY <1>2 DEF Statements, SettleTrade, BuyerCash, SellerCash, SellerAsset, BuyerAsset
  <2>2. LockOrder(call) = {<<a, b>>, <<a, x>>, <<a, y>>, <<b, x>>, <<b, y>>, <<x, y>>}
    BY <1>2 DEF LockOrder
  <2> DEFINE S == Statements(call)
  <2>3. /\ Len(S) = 10 /\ S[1].row = a /\ S[2].row = b /\ S[3].row = x /\ S[4].row = y
        /\ \A i \in 5..10 : S[i].op # "lock"
    BY <2>1 DEF SelectForUpdate, Require, Debit, Credit
  <2> HIDE DEF a, b, x, y, n, m, S
  <2>4. PICK j \in 1..10 : \E i \in 1..(j - 1) :
               S[i].op = "lock" /\ S[i].row = q /\ S[j].op = "lock" /\ S[j].row = p
    BY <2>3 DEF Earlier, S
  <2>5. PICK i \in 1..(j - 1) : S[i].op = "lock" /\ S[i].row = q /\ S[j].op = "lock" /\ S[j].row = p
    BY <2>4
  <2>6. j \in 1..4
    BY <2>3, <2>4
  <2>7. <<i, j>> \in {<<1, 2>>, <<1, 3>>, <<1, 4>>, <<2, 3>>, <<2, 4>>, <<3, 4>>}
    BY <2>6
  <2> QED
    BY <2>2, <2>3, <2>5, <2>7
<1> QED
  BY <1>1, <1>2 DEF Call

\* Only a registration writes a row that it has not locked.
LEMMA LockedFirst ==
  ASSUME NEW call \in Call, call.name # "register", NEW k \in Nat, k + 1 \in 1..Len(Statements(call)),
         Statements(call)[k + 1].op \in {"debit", "credit"}
  PROVE  \E j \in 1..k : Statements(call)[j].op = "lock" /\ Statements(call)[j].row = Statements(call)[k + 1].row
<1>1. CASE call.name \in {"lockEscrow", "releaseEscrow"}
  <2> DEFINE a == Checking(call)
             b == Escrow(call)
             n == Amount(call)
  <2>1. \/ Statements(call) = <<SelectForUpdate(a), Require(a, n), SelectForUpdate(b), Debit(a, n), Credit(b, n)>>
        \/ Statements(call) = <<SelectForUpdate(a), SelectForUpdate(b), Require(b, n), Debit(b, n), Credit(a, n)>>
    BY <1>1 DEF Statements, LockEscrow, ReleaseEscrow
  <2> HIDE DEF a, b, n
  <2> QED
    BY <2>1 DEF SelectForUpdate, Require, Debit, Credit
<1>2. CASE call.name = "settleTrade"
  <2> DEFINE a == BuyerCash(call)
             b == SellerCash(call)
             x == SellerAsset(call)
             y == BuyerAsset(call)
             n == call.price * call.quantity
             m == call.quantity
  <2>1. Statements(call) = <<SelectForUpdate(a), SelectForUpdate(b), SelectForUpdate(x), SelectForUpdate(y),
                  Require(a, n), Require(x, m), Debit(a, n), Credit(b, n), Debit(x, m), Credit(y, m)>>
    BY <1>2 DEF Statements, SettleTrade, BuyerCash, SellerCash, SellerAsset, BuyerAsset
  <2> HIDE DEF a, b, x, y, n, m
  <2> QED
    BY <2>1 DEF SelectForUpdate, Require, Debit, Credit
<1> QED
  BY <1>1, <1>2 DEF Call

\* A transaction that holds a row and waits for another waits for a committed one.
LEMMA WaitsForCommitted ==
  ASSUME LedgerInv, Holding, NEW c \in Conn, tx[c].locks # {}, NEW p \in Rows(c)
  PROVE  /\ tx[c].todo # <<>> /\ Now(c).op \in {"lock", "debit", "credit"}
         /\ p = Now(c).row /\ p \in DOMAIN balance
<1> DEFINE t == tx[c]
           S == Statements(t.call)
<1>1. t.todo # <<>> /\ Now(c).op \notin {"check", "entry"}
  BY DEF Rows
<1>2. WellFormed(S) /\ Now(c) = S[Done(t) + 1] /\ Done(t) + 1 \in 1..Len(S) /\ Now(c) \in Statement /\ Done(t) \in Nat
  BY <1>1, Progress
<1>3. Done(t) # 0
  <2>1. PICK i \in 1..Done(t) : TRUE
    BY DEF Holding
  <2> QED
    BY <1>2, <2>1
<1>4. Now(c).op # "open"
  <2> HIDE DEF S
  <2>1. S[Done(t) + 1].op = "open" => Done(t) + 1 = 1
    BY <1>2 DEF WellFormed
  <2> QED
    BY <1>2, <1>3, <2>1
<1>5. p = Now(c).row /\ p \in DOMAIN balance
  BY <1>1, <1>4 DEF Rows
<1> QED
  BY <1>1, <1>2, <1>4, <1>5 DEF Statement

LEMMA WaitsInOrder ==
  ASSUME LedgerInv, Holding, NEW c \in Conn, NEW d \in Conn, c # d,
         NEW p \in Rows(c) \cap tx[d].locks, NEW q \in Rows(d) \cap tx[c].locks
  PROVE  tx[c].call \in Call /\ tx[c].call.name # "register" /\ <<q, p>> \in LockOrder(tx[c].call)
<1> DEFINE t == tx[c]
           S == Statements(t.call)
           k == Done(t)
<1>1. /\ t.todo # <<>> /\ Now(c).op \in {"lock", "debit", "credit"} /\ p = Now(c).row
      /\ q \in DOMAIN balance
  BY WaitsForCommitted
<1>2. /\ WellFormed(S) /\ Now(c) = S[k + 1] /\ k + 1 \in 1..Len(S) /\ k \in Nat /\ t.call \in Call
      /\ FitsAt(t, balance, k)
  BY <1>1, Progress
<1>3. p \notin t.locks
  BY DEF LedgerInv
<1>4. PICK i \in 1..k : q \in Takes(S[i])
  BY DEF Holding
<1>5. Ran(S, k, t, balance)
  BY <1>2 DEF FitsAt
<1>6. t.call.name # "register"
  <2> SUFFICES ASSUME t.call.name = "register" PROVE FALSE
    OBVIOUS
  <2>1. S = <<InsertWallets(t.call.user), Debit(SystemUsd, Seed * Grain), InsertCredit(<<t.call.user, "USD", "CHECKING">>, Seed * Grain)>>
    BY DEF Statements, Register
  <2>2. S[1].op = "open" /\ S[3].op = "entry" /\ Len(S) = 3
    BY <2>1 DEF InsertWallets, InsertCredit
  <2> HIDE DEF S, k
  <2>3. k = 1
    BY <1>1, <1>2, <2>2
  <2>4. q \in Wallets(S[1].row[1])
    BY <1>4, <2>2, <2>3 DEF Takes
  <2>5. q \notin DOMAIN balance
    BY <1>5, <2>2, <2>3, <2>4 DEF Ran
  <2> QED
    BY <1>1, <2>5
<1>7. Now(c).op = "lock"
  <2> SUFFICES ASSUME Now(c).op \in {"debit", "credit"} PROVE FALSE
    BY <1>1
  <2> HIDE DEF k
  <2>1. PICK j \in 1..k : S[j].op = "lock" /\ S[j].row = p
    BY <1>1, <1>2, <1>6, LockedFirst
  <2>2. p \in t.locks
    BY <1>5, <2>1 DEF Ran
  <2> QED
    BY <1>3, <2>2
<1>8. S[i].op = "lock" /\ S[i].row = q
  <2> HIDE DEF S, k
  <2>1. S[i].op \in {"lock", "check"}
    <3>1. \A j \in 1..((k + 1) - 1) : S[j].op \in {"lock", "check"}
      BY <1>2, <1>7 DEF WellFormed
    <3> QED
      BY <1>2, <3>1
  <2> QED
    BY <1>4, <2>1 DEF Takes
<1>9. Earlier(S, q, p)
  <2> HIDE DEF S, k
  <2>1. i \in 1..((k + 1) - 1)
    BY <1>2
  <2> QED
    BY <1>1, <1>2, <1>7, <1>8, <2>1 DEF Earlier
<1> QED
  BY <1>2, <1>6, <1>9, LockOrderIs

\* Two calls deadlock only when one of them settles a trade of a user with himself.
THEOREM LedgerDeadlocks == Spec => []DeadlockNeedsSelfTrade
<1>1. Init => Holding
  BY DEF Init, Holding, Idle
<1>2. LedgerInv /\ Holding => DeadlockNeedsSelfTrade
  <2> SUFFICES ASSUME LedgerInv, Holding, NEW c \in Conn, NEW d \in Conn, Cycle({c, d})
               PROVE  \E e \in {c, d} : tx[e].call.name = "settleTrade" /\ tx[e].call.buyer = tx[e].call.seller
    BY DEF DeadlockNeedsSelfTrade
  <2>1. c # d /\ WaitsFor(c, d) /\ WaitsFor(d, c)
    BY DEF Cycle, Stuck, WaitsFor
  <2>2. PICK p \in Rows(c) \cap tx[d].locks : TRUE
    BY <2>1 DEF WaitsFor
  <2>3. PICK q \in Rows(d) \cap tx[c].locks : TRUE
    BY <2>1 DEF WaitsFor
  <2>4. p # q
    BY <2>1, <2>2, <2>3 DEF LedgerInv
  <2>5. tx[c].call \in Call /\ tx[c].call.name # "register" /\ <<q, p>> \in LockOrder(tx[c].call)
    BY <2>1, <2>2, <2>3, WaitsInOrder
  <2>6. tx[d].call \in Call /\ tx[d].call.name # "register" /\ <<p, q>> \in LockOrder(tx[d].call)
    BY <2>1, <2>2, <2>3, WaitsInOrder
  <2> QED
    BY <2>4, <2>5, <2>6, OppositeOrders
<1> QED
  BY <1>1, <1>2, LedgerInit, LedgerStep, NextHolding, PTL DEF Spec
=============================================================================
