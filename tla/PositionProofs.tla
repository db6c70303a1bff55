------------------------------ MODULE PositionProofs ------------------------------
(***************************************************************************)
(* A position accounts for all money that its trades have cost and earned, *)
(* its entry price lies between prices that were traded, sizes sum to      *)
(* zero, and what is not dirty is in the table unless a trade raced a      *)
(* flush, for any users, prices, quantities, failures and crashes.         *)
(*                                                                         *)
(* Fractions are compared as integers over a common denominator (Means,    *)
(* of Arithmetic).                                                         *)
(***************************************************************************)
EXTENDS PositionEngine, Arithmetic

Row == [size : Int, averageEntryPrice : Rational, realizedPnl : Rational]

\* One side of a trade at price p takes a row to another: t is what it adds to the size.
\* Entry prices and profits, and any fraction c, over a common denominator: what the
\* position has earned changes by what the trade paid, and the new entry price lies between
\* the old one and the price of the trade.
AccountsOver(row, new, c, t, p, D, A, R, C, A2, R2) ==
  /\ Means(row.averageEntryPrice, A, D) /\ Means(row.realizedPnl, R, D) /\ Means(c, C, D)
  /\ Means(new.averageEntryPrice, A2, D) /\ Means(new.realizedPnl, R2, D)
  /\ R2 - new.size * A2 = (R - row.size * A) - t * (p * D)
  /\ new.size # 0 =>
        \/ A2 = p * D
        \/ (row.size # 0 /\ ((A <= A2 /\ A2 <= p * D) \/ (p * D <= A2 /\ A2 <= A)))
Accounts(row, new, c, t, p) ==
  \E D \in Nat \ {0} : \E A, R, C, A2, R2 \in Int : AccountsOver(row, new, c, t, p, D, A, R, C, A2, R2)

\* An average of two prices lies between them.
LEMMA MixedPrice ==
  ASSUME NEW s \in Nat, NEW q \in Nat \ {0}, NEW A \in Int, NEW X \in Int, NEW w \in Int,
         w * (s + q) = s * A + q * X
  PROVE  (A <= w /\ w <= X) \/ (X <= w /\ w <= A)
<1>1. PICK n \in Nat \ {0} : n = s + q
  OBVIOUS
<1>2. w * n = s * A + q * X
  BY <1>1
<1>3. X * n = X * s + X * q /\ A * n = A * s + A * q
  BY <1>1
<1>4. n \in Int /\ n > 0 /\ s \in Int /\ s >= 0 /\ q \in Int /\ q >= 0
  BY <1>1
<1>5. CASE A <= X
  <2>1. A * s <= X * s /\ A * q <= X * q
    BY <1>4, <1>5, Grows
  <2>2. s * A = A * s /\ q * X = X * q
    OBVIOUS
  <2>3. A * n <= w * n /\ w * n <= X * n
    BY <1>2, <1>3, <2>1, <2>2
  <2> QED BY <1>4, <2>3, CancelAtMost
<1>6. CASE X <= A
  <2>1. X * s <= A * s /\ X * q <= A * q
    BY <1>4, <1>6, Grows
  <2>2. s * A = A * s /\ q * X = X * q
    OBVIOUS
  <2>3. X * n <= w * n /\ w * n <= A * n
    BY <1>2, <1>3, <2>1, <2>2
  <2> QED BY <1>4, <2>3, CancelAtMost
<1> QED BY <1>5, <1>6

\* What a side adds to the size.
Signed(side, q) == IF side = "BUY" THEN q ELSE -q

\* A trade in the direction of the position, or the first one.
LEMMA ScaleIn ==
  ASSUME NEW row \in Row, NEW c \in Rational, NEW side \in {"BUY", "SELL"},
         NEW p \in Nat \ {0}, NEW q \in Nat \ {0},
         Sign(row.size) = Sign(Signed(side, q)) \/ row.size = 0
  PROVE  LET new == ProcessSide(row, side, p, q)
         IN  new.size = row.size + Signed(side, q) /\ Accounts(row, new, c, Signed(side, q), p) /\ new \in Row
<1>1. PICK z \in Int, t \in Int, s \in Nat, n \in Nat \ {0} :
          /\ z = row.size /\ t = Signed(side, q) /\ s = Abs(z) /\ n = Abs(z + t) /\ n = s + q
          /\ (z >= 0 /\ t = q /\ z = s /\ z + t = n) \/ (z <= 0 /\ t = -q /\ z = -s /\ z + t = -n)
  <2>1. row.size \in Int /\ Signed(side, q) \in Int
    BY DEF Row, Signed
  <2>2. CASE side = "BUY"
    <3>1. Signed(side, q) = q /\ row.size >= 0 /\ Abs(row.size) = row.size
      BY <2>1, <2>2 DEF Signed, Abs, Sign
    <3>2. Abs(row.size + q) = row.size + q /\ row.size + q \in Nat \ {0}
      BY <2>1, <3>1 DEF Abs
    <3> QED BY <2>1, <3>1, <3>2
  <2>3. CASE side = "SELL"
    <3>1. Signed(side, q) = -q /\ row.size <= 0 /\ Abs(row.size) = -row.size
      BY <2>1, <2>3 DEF Signed, Abs, Sign
    <3>2. Abs(row.size + (-q)) = q - row.size /\ q - row.size \in Nat \ {0} /\ -row.size \in Nat
      BY <2>1, <3>1 DEF Abs
    <3>3. q - row.size = (-row.size) + q /\ row.size = -(-row.size) /\ row.size + (-q) = -(q - row.size)
      BY <2>1
    <3> QED BY <2>1, <3>1, <3>2, <3>3
  <2> QED BY <2>2, <2>3
<1>2. PICK D0 \in Nat \ {0}, A0 \in Int, R0 \in Int, C0 \in Int :
          Means(row.averageEntryPrice, A0, D0) /\ Means(row.realizedPnl, R0, D0) /\ Means(c, C0, D0)
  <2>1. row.averageEntryPrice \in Rational /\ row.realizedPnl \in Rational
    BY DEF Row
  <2> QED BY <2>1, CommonDenominator
<1>3. PICK D \in Nat \ {0}, A \in Int, R \in Int, C \in Int : D = n * D0 /\ A = n * A0 /\ R = n * R0 /\ C = n * C0
  OBVIOUS
<1>4. Means(row.averageEntryPrice, A, D) /\ Means(row.realizedPnl, R, D) /\ Means(c, C, D)
  BY <1>2, <1>3, MeansTimes
<1>5. PICK w \in Int : w = s * A0 + q * (p * D0)
  OBVIOUS
<1>6. Means(Notional(row), s * A, D)
  <2>1. s \in Int
    OBVIOUS
  <2> QED BY <1>1, <1>4, <2>1, ScaleMeans DEF Notional
<1>7. Means(Whole(q * p), (q * p) * D, D)
  <2>1. q * p \in Int
    OBVIOUS
  <2> QED BY <2>1, WholeMeans
<1>8. Means(Plus(Notional(row), Whole(q * p)), s * A + (q * p) * D, D)
  BY <1>6, <1>7, PlusMeans
<1>9. s * A + (q * p) * D = w * n
  <2>1. s * (n * A0) = n * (s * A0) /\ (q * p) * (n * D0) = n * (q * (p * D0))
    OBVIOUS
  <2>2. w * n = n * (s * A0) + n * (q * (p * D0))
    BY <1>5
  <2> QED BY <1>3, <2>1, <2>2
<1>10. Means(Over(Plus(Notional(row), Whole(q * p)), n), w, D)
  BY <1>8, <1>9, OverMeans
<1> DEFINE new == ProcessSide(row, side, p, q)
<1>11. /\ new.size = z + t /\ new.realizedPnl = row.realizedPnl
       /\ new.averageEntryPrice = Over(Plus(Notional(row), Whole(q * p)), n)
       /\ new = [size |-> new.size, averageEntryPrice |-> new.averageEntryPrice, realizedPnl |-> new.realizedPnl]
  <2>1. new = [row EXCEPT !.size = z + t,
                          !.averageEntryPrice = Over(Plus(Notional(row), Whole(q * p)), Abs(z + t))]
    BY <1>1 DEF ProcessSide, Signed
  <2> HIDE DEF new
  <2> QED BY <1>1, <2>1 DEF Row
<1> HIDE DEF new
<1>12. Means(new.averageEntryPrice, w, D) /\ Means(new.realizedPnl, R, D)
  BY <1>4, <1>10, <1>11
<1>13. R - new.size * w = (R - row.size * A) - t * (p * D)
  <2>1. w * n = s * A + q * (p * D)
    <3>1. (q * p) * D = q * (p * D)
      OBVIOUS
    <3> QED BY <1>9, <3>1
  <2>2. CASE z = s /\ z + t = n /\ t = q
    BY <1>1, <1>11, <2>1, <2>2
  <2>3. CASE z = -s /\ z + t = -n /\ t = -q
    <3>1. (-n) * w = -(w * n) /\ (-s) * A = -(s * A) /\ (-q) * (p * D) = -(q * (p * D))
      OBVIOUS
    <3>2. new.size * w = -(w * n) /\ row.size * A = -(s * A) /\ t * (p * D) = -(q * (p * D))
      BY <1>1, <1>11, <2>3, <3>1
    <3>3. w * n \in Int /\ s * A \in Int /\ q * (p * D) \in Int
      OBVIOUS
    <3> QED BY <2>1, <3>2, <3>3
  <2> QED BY <1>1, <2>2, <2>3
<1>14. \/ w = p * D
       \/ (row.size # 0 /\ ((A <= w /\ w <= p * D) \/ (p * D <= w /\ w <= A)))
  <2>1. PICK X \in Int : X = p * D
    OBVIOUS
  <2>2. w * n = s * A + q * X
    <3>1. (q * p) * D = q * (p * D)
      OBVIOUS
    <3> QED BY <1>9, <2>1, <3>1
  <2>3. CASE row.size = 0
    <3>1. s = 0 /\ n = q
      BY <1>1, <2>3
    <3>2. w * q = X * q
      BY <2>2, <3>1
    <3>3. q \in Int /\ q # 0
      OBVIOUS
    <3>4. w = X
      BY <3>2, <3>3, Cancel
    <3> QED BY <2>1, <3>4
  <2>4. CASE row.size # 0
    <3>1. w * (s + q) = s * A + q * X
      BY <1>1, <2>2
    <3> QED BY <2>1, <2>4, <3>1, MixedPrice
  <2> QED BY <2>3, <2>4
<1>15. Accounts(row, new, c, t, p)
  BY <1>4, <1>12, <1>13, <1>14 DEF Accounts, AccountsOver
<1>16. new \in Row
  BY <1>11, <1>12 DEF Row, Means
<1> QED BY <1>1, <1>11, <1>15, <1>16 DEF new

\* What is realized when the whole position is closed, and when a part of it is.
LEMMA FlipPays ==
  ASSUME NEW z \in Int, NEW t \in Int, NEW m \in Int, NEW A \in Int, NEW X \in Int, NEW R \in Int, NEW P \in Int,
         (m = -z /\ P = A - X) \/ (m = z /\ P = X - A)
  PROVE  (R + m * P) - (z + t) * X = (R - z * A) - t * X
<1>1. m * P = z * X - z * A
  <2>1. (-z) * (A - X) = z * X - z * A /\ z * (X - A) = z * X - z * A
    OBVIOUS
  <2> QED BY <2>1
<1>2. (z + t) * X = z * X + t * X
  OBVIOUS
<1>3. z * X \in Int /\ t * X \in Int /\ z * A \in Int
  OBVIOUS
<1> QED BY <1>1, <1>2, <1>3

LEMMA ReductionPays ==
  ASSUME NEW z \in Int, NEW t \in Int, NEW m \in Int, NEW A \in Int, NEW X \in Int, NEW R \in Int, NEW P \in Int,
         (m = t /\ P = A - X) \/ (m = -t /\ P = X - A)
  PROVE  (R + m * P) - (z + t) * A = (R - z * A) - t * X
<1>1. m * P = t * A - t * X
  <2>1. t * (A - X) = t * A - t * X /\ (-t) * (X - A) = t * A - t * X
    OBVIOUS
  <2> QED BY <2>1
<1>2. (z + t) * A = z * A + t * A
  OBVIOUS
<1>3. t * A \in Int /\ t * X \in Int /\ z * A \in Int
  OBVIOUS
<1> QED BY <1>1, <1>2, <1>3

\* A trade against the position: it is reduced, closed or flipped.
LEMMA ScaleOut ==
  ASSUME NEW row \in Row, NEW c \in Rational, NEW side \in {"BUY", "SELL"},
         NEW p \in Nat \ {0}, NEW q \in Nat \ {0},
         Sign(row.size) # Sign(Signed(side, q)), row.size # 0
  PROVE  LET new == ProcessSide(row, side, p, q)
         IN  /\ new.size = row.size + Signed(side, q) /\ Accounts(row, new, c, Signed(side, q), p) /\ new \in Row
             /\ new.size = 0 => new.averageEntryPrice = Whole(0)
<1>1. PICK z \in Int, t \in Int, s \in Nat \ {0}, m \in Nat \ {0} :
          /\ z = row.size /\ t = Signed(side, q) /\ s = Abs(z) /\ Abs(t) = q /\ m = Reduced(z, q)
          /\ m = IF s < q THEN s ELSE q
          /\ (side = "SELL" /\ t = -q /\ z = s) \/ (side = "BUY" /\ t = q /\ z = -s)
  <2>1. row.size \in Int
    BY DEF Row
  <2>2. CASE side = "BUY"
    <3>1. Signed(side, q) = q /\ row.size < 0 /\ Abs(row.size) = -row.size /\ Abs(q) = q
      BY <2>1, <2>2 DEF Signed, Abs, Sign
    <3>2. -row.size \in Nat \ {0} /\ row.size = -(-row.size)
      BY <2>1, <3>1
    <3>3. Reduced(row.size, q) \in Nat \ {0} /\ Reduced(row.size, q) = IF -row.size < q THEN -row.size ELSE q
      BY <3>1, <3>2 DEF Reduced
    <3> QED BY <2>1, <2>2, <3>1, <3>2, <3>3
  <2>3. CASE side = "SELL"
    <3>1. Signed(side, q) = -q /\ row.size > 0 /\ Abs(row.size) = row.size /\ Abs(-q) = q
      BY <2>1, <2>3 DEF Signed, Abs, Sign
    <3>2. row.size \in Nat \ {0} /\ -q \in Int
      BY <2>1, <3>1
    <3>3. Reduced(row.size, q) \in Nat \ {0} /\ Reduced(row.size, q) = IF row.size < q THEN row.size ELSE q
      BY <3>1, <3>2 DEF Reduced
    <3> QED BY <2>1, <2>3, <3>1, <3>2, <3>3
  <2> QED BY <2>2, <2>3
<1>2. PICK D \in Nat \ {0}, A \in Int, R \in Int, C \in Int :
          Means(row.averageEntryPrice, A, D) /\ Means(row.realizedPnl, R, D) /\ Means(c, C, D)
  <2>1. row.averageEntryPrice \in Rational /\ row.realizedPnl \in Rational
    BY DEF Row
  <2> QED BY <2>1, CommonDenominator
<1>3. PICK X \in Int : X = p * D
  OBVIOUS
<1> DEFINE new == ProcessSide(row, side, p, q)
           perUnit == IF side = "BUY" THEN Plus(row.averageEntryPrice, Whole(-p))
                      ELSE Plus(Whole(p), Scale(-1, row.averageEntryPrice))
<1>4. PICK P \in Int : /\ Means(perUnit, P, D)
                       /\ side = "BUY" => P = A - X
                       /\ side = "SELL" => P = X - A
  <2>1. CASE side = "BUY"
    <3>1. -p \in Int /\ (-p) * D = -X
      BY <1>3
    <3>2. Means(Whole(-p), -X, D)
      BY <3>1, WholeMeans
    <3>3. Means(Plus(row.averageEntryPrice, Whole(-p)), A + (-X), D)
      BY <1>2, <3>2, PlusMeans
    <3>4. A + (-X) = A - X /\ A - X \in Int
      OBVIOUS
    <3> QED BY <2>1, <3>3, <3>4
  <2>2. CASE side = "SELL"
    <3>1. Means(Whole(p), X, D)
      <4>1. p \in Int
        OBVIOUS
      <4> QED BY <1>3, <4>1, WholeMeans
    <3>2. Means(Scale(-1, row.averageEntryPrice), -1 * A, D)
      <4>1. -1 \in Int
        OBVIOUS
      <4> QED BY <1>2, <4>1, ScaleMeans
    <3>3. Means(Plus(Whole(p), Scale(-1, row.averageEntryPrice)), X + (-1 * A), D)
      BY <3>1, <3>2, PlusMeans
    <3>4. X + (-1 * A) = X - A /\ X - A \in Int
      OBVIOUS
    <3> QED BY <2>2, <3>3, <3>4
  <2> QED BY <2>1, <2>2
<1>5. /\ new.size = z + t
      /\ new.averageEntryPrice = EntryPrice(row, z + t, p)
      /\ new.realizedPnl = Plus(row.realizedPnl, Scale(m, perUnit))
      /\ new = [size |-> new.size, averageEntryPrice |-> new.averageEntryPrice, realizedPnl |-> new.realizedPnl]
  <2>1. new = [size |-> z + t, averageEntryPrice |-> EntryPrice(row, z + t, p),
               realizedPnl |-> Plus(row.realizedPnl, Scale(m, perUnit))]
    BY <1>1 DEF ProcessSide, Signed
  <2> HIDE DEF new, perUnit
  <2> QED BY <2>1
<1>6. Means(new.realizedPnl, R + m * P, D)
  <2> HIDE DEF new, perUnit
  <2>1. m \in Int
    OBVIOUS
  <2>2. Means(Scale(m, perUnit), m * P, D)
    BY <1>4, <2>1, ScaleMeans
  <2> QED BY <1>2, <1>5, <2>2, PlusMeans
<1> HIDE DEF new, perUnit
<1>7. PICK R2 \in Int : R2 = R + m * P
  BY <1>4
<1>8. EntryPrice(row, z + t, p) = IF q > s THEN Whole(p) ELSE IF z + t = 0 THEN Whole(0) ELSE row.averageEntryPrice
  <2>1. (z + t) - z = t
    OBVIOUS
  <2> QED BY <1>1, <2>1 DEF EntryPrice
<1>9. \E A2 \in Int : /\ Means(new.averageEntryPrice, A2, D)
                      /\ R2 - (z + t) * A2 = (R - z * A) - t * X
                      /\ z + t # 0 => A2 = X \/ A2 = A
                      /\ z + t = 0 => new.averageEntryPrice = Whole(0)
  <2>1. CASE q > s
    <3>1. Means(Whole(p), X, D)
      <4>1. p \in Int
        OBVIOUS
      <4> QED BY <1>3, <4>1, WholeMeans
    <3>2. m = s /\ z + t # 0
      BY <1>1, <2>1
    <3>3. R2 - (z + t) * X = (R - z * A) - t * X
      <4>1. (m = -z /\ P = A - X) \/ (m = z /\ P = X - A)
        BY <1>1, <1>4, <3>2
      <4>2. m \in Int
        OBVIOUS
      <4> QED BY <1>7, <4>1, <4>2, FlipPays
    <3> QED BY <1>5, <1>8, <2>1, <3>1, <3>2, <3>3
  <2>2. CASE q = s
    <3>1. Means(Whole(0), 0 * D, D) /\ 0 * D = 0
      BY WholeMeans
    <3>2. m = s /\ z + t = 0
      BY <1>1, <2>2
    <3>3. R2 - (z + t) * 0 = (R - z * A) - t * X
      <4>1. (m = t /\ P = A - X) \/ (m = -t /\ P = X - A)
        BY <1>1, <1>4, <2>2, <3>2
      <4>2. m \in Int
        OBVIOUS
      <4>3. R2 - (z + t) * A = (R - z * A) - t * X
        BY <1>7, <4>1, <4>2, ReductionPays
      <4>4. (z + t) * 0 = 0 /\ (z + t) * A = 0
        BY <3>2
      <4> QED BY <4>3, <4>4
    <3>4. new.averageEntryPrice = Whole(0)
      BY <1>5, <1>8, <2>2, <3>2
    <3> QED BY <3>1, <3>2, <3>3, <3>4
  <2>3. CASE q < s
    <3>1. m = q /\ z + t # 0
      BY <1>1, <2>3
    <3>2. R2 - (z + t) * A = (R - z * A) - t * X
      <4>1. (m = t /\ P = A - X) \/ (m = -t /\ P = X - A)
        BY <1>1, <1>4, <3>1
      <4>2. m \in Int
        OBVIOUS
      <4>3. R2 - (z + t) * A = (R - z * A) - t * X
        BY <1>7, <4>1, <4>2, ReductionPays
      <4> QED BY <4>3
    <3>3. new.averageEntryPrice = row.averageEntryPrice
      BY <1>5, <1>8, <2>3, <3>1
    <3> QED BY <1>2, <3>1, <3>2, <3>3
  <2> QED BY <2>1, <2>2, <2>3
<1>10. PICK A2 \in Int : /\ Means(new.averageEntryPrice, A2, D)
                         /\ R2 - (z + t) * A2 = (R - z * A) - t * X
                         /\ z + t # 0 => A2 = X \/ A2 = A
                         /\ z + t = 0 => new.averageEntryPrice = Whole(0)
  BY <1>9
<1>11. Means(new.realizedPnl, R2, D)
  BY <1>6, <1>7
<1>12. /\ R2 - new.size * A2 = (R - row.size * A) - t * (p * D)
       /\ new.size # 0 => \/ A2 = p * D
                          \/ (row.size # 0 /\ ((A <= A2 /\ A2 <= p * D) \/ (p * D <= A2 /\ A2 <= A)))
  <2>1. A <= X \/ X <= A
    OBVIOUS
  <2> QED BY <1>1, <1>3, <1>5, <1>10, <2>1
<1>13. Accounts(row, new, c, t, p)
  BY <1>2, <1>10, <1>11, <1>12 DEF Accounts, AccountsOver
<1>14. new \in Row
  BY <1>5, <1>10, <1>11 DEF Row, Means
<1> QED BY <1>1, <1>5, <1>10, <1>13, <1>14 DEF new

-----------------------------------------------------------------------------
\* EntryPriceInRange of one row.
InRange(row) ==
  IF row.size = 0 THEN row.averageEntryPrice = Whole(0)
  ELSE \E lowest, highest \in Price : AtMost(Whole(lowest), row.averageEntryPrice) /\ AtMost(row.averageEntryPrice, Whole(highest))

\* A row that accounts for the cash c.
Settled(row, c) == row \in Row /\ c \in Rational /\ InRange(row) /\ Same(Proceeds(row), c)

LEMMA ProceedsMean ==
  ASSUME NEW row \in Row, NEW D \in Nat \ {0}, NEW A \in Int, NEW R \in Int,
         Means(row.averageEntryPrice, A, D), Means(row.realizedPnl, R, D)
  PROVE  Means(Proceeds(row), R - row.size * A, D)
<1>1. PICK z \in Int, n \in Int : z = row.size /\ n = -1 * row.size
  BY DEF Row
<1>2. Means(Scale(n, row.averageEntryPrice), n * A, D)
  BY ScaleMeans
<1>3. Means(Plus(row.realizedPnl, Scale(n, row.averageEntryPrice)), R + n * A, D)
  BY <1>2, PlusMeans
<1>4. R + n * A = R - z * A
  <2>1. n = -z /\ (-z) * A = -(z * A) /\ z * A \in Int
    BY <1>1
  <2> QED BY <2>1
<1> QED BY <1>1, <1>3, <1>4 DEF Proceeds

\* The new row accounts for the cash with what the trade paid.
LEMMA AccountsForCash ==
  ASSUME NEW row \in Row, NEW new \in Row, NEW c \in Rational, NEW t \in Int, NEW p \in Nat \ {0}, NEW x \in Int,
         Accounts(row, new, c, t, p), Same(Proceeds(row), c), x = -(t * p)
  PROVE  Same(Proceeds(new), Plus(c, Whole(x))) /\ Plus(c, Whole(x)) \in Rational
<1>1. PICK D \in Nat \ {0}, A \in Int, R \in Int, C \in Int, A2 \in Int, R2 \in Int :
        /\ Means(row.averageEntryPrice, A, D) /\ Means(row.realizedPnl, R, D) /\ Means(c, C, D)
        /\ Means(new.averageEntryPrice, A2, D) /\ Means(new.realizedPnl, R2, D)
        /\ R2 - new.size * A2 = (R - row.size * A) - t * (p * D)
  <2>1. PICK D \in Nat \ {0} : \E A, R, C, A2, R2 \in Int : AccountsOver(row, new, c, t, p, D, A, R, C, A2, R2)
    BY DEF Accounts
  <2>2. PICK A \in Int, R \in Int, C \in Int, A2 \in Int, R2 \in Int : AccountsOver(row, new, c, t, p, D, A, R, C, A2, R2)
    BY <2>1
  <2> QED BY <2>2 DEF AccountsOver
<1>2. Means(Proceeds(row), R - row.size * A, D) /\ Means(Proceeds(new), R2 - new.size * A2, D)
  <2>1. Means(row.averageEntryPrice, A, D) /\ Means(row.realizedPnl, R, D)
    BY <1>1
  <2>2. Means(new.averageEntryPrice, A2, D) /\ Means(new.realizedPnl, R2, D)
    BY <1>1
  <2>3. Means(Proceeds(row), R - row.size * A, D)
    BY ONLY row \in Row, D \in Nat \ {0}, A \in Int, R \in Int, <2>1, ProceedsMean
  <2>4. Means(Proceeds(new), R2 - new.size * A2, D)
    BY ONLY new \in Row, D \in Nat \ {0}, A2 \in Int, R2 \in Int, <2>2, ProceedsMean
  <2> QED BY <2>3, <2>4
<1>3. R - row.size * A = C
  BY <1>1, <1>2, MeansSame
<1>4. Means(Whole(x), x * D, D)
  BY WholeMeans
<1>5. Means(Plus(c, Whole(x)), C + x * D, D)
  BY <1>1, <1>4, PlusMeans
<1>6. C + x * D = R2 - new.size * A2
  <2>1. x * D = -(t * (p * D)) /\ t * (p * D) \in Int
    OBVIOUS
  <2> QED BY <1>1, <1>3, <2>1
<1>7. Means(Plus(c, Whole(x)), R2 - new.size * A2, D)
  BY <1>5, <1>6
<1> QED BY <1>2, <1>7, SameMeans DEF Means

\* The new entry price is in range if the price of the trade and the old one are.
LEMMA AccountsInRange ==
  ASSUME NEW row \in Row, NEW new \in Row, NEW c \in Rational, NEW t \in Int, NEW p \in Price,
         Accounts(row, new, c, t, p), InRange(row),
         new.size = 0 => new.averageEntryPrice = Whole(0)
  PROVE  InRange(new)
<1> SUFFICES ASSUME new.size # 0
             PROVE  \E lowest, highest \in Price :
                       AtMost(Whole(lowest), new.averageEntryPrice) /\ AtMost(new.averageEntryPrice, Whole(highest))
  BY DEF InRange
<1>1. PICK D \in Nat \ {0}, A \in Int, A2 \in Int :
        /\ Means(row.averageEntryPrice, A, D) /\ Means(new.averageEntryPrice, A2, D)
        /\ \/ A2 = p * D
           \/ (row.size # 0 /\ ((A <= A2 /\ A2 <= p * D) \/ (p * D <= A2 /\ A2 <= A)))
  <2>1. PICK D \in Nat \ {0} : \E A, R, C, A2, R2 \in Int : AccountsOver(row, new, c, t, p, D, A, R, C, A2, R2)
    BY DEF Accounts
  <2>2. PICK A \in Int, R \in Int, C \in Int, A2 \in Int, R2 \in Int : AccountsOver(row, new, c, t, p, D, A, R, C, A2, R2)
    BY <2>1
  <2> QED BY <2>2 DEF AccountsOver
<1>2. \A n \in Price : n \in Int /\ Means(Whole(n), n * D, D)
  BY WholeMeans, PositionAssumption
<1>3. ASSUME NEW n \in Price
      PROVE  /\ AtMost(Whole(n), row.averageEntryPrice) <=> n * D <= A
             /\ AtMost(row.averageEntryPrice, Whole(n)) <=> A <= n * D
             /\ AtMost(Whole(n), new.averageEntryPrice) <=> n * D <= A2
             /\ AtMost(new.averageEntryPrice, Whole(n)) <=> A2 <= n * D
  BY <1>1, <1>2, MeansAtMost
<1>4. CASE A2 = p * D
  <2>1. p * D <= A2 /\ A2 <= p * D
    BY <1>2, <1>4
  <2> QED BY <1>3, <2>1
<1>5. CASE row.size # 0 /\ ((A <= A2 /\ A2 <= p * D) \/ (p * D <= A2 /\ A2 <= A))
  <2>1. PICK lowest \in Price, highest \in Price :
            AtMost(Whole(lowest), row.averageEntryPrice) /\ AtMost(row.averageEntryPrice, Whole(highest))
    BY <1>5 DEF InRange
  <2>2. lowest * D <= A /\ A <= highest * D
    BY <1>3, <2>1
  <2>3. lowest * D \in Int /\ highest * D \in Int /\ p * D \in Int
    BY <1>2
  <2>4. CASE A <= A2 /\ A2 <= p * D
    <3>1. lowest * D <= A2
      BY <2>2, <2>3, <2>4
    <3> QED BY <1>3, <2>4, <3>1
  <2>5. CASE p * D <= A2 /\ A2 <= A
    <3>1. A2 <= highest * D
      BY <2>2, <2>3, <2>5
    <3> QED BY <1>3, <2>5, <3>1
  <2> QED BY <1>5, <2>4, <2>5
<1> QED BY <1>1, <1>4, <1>5

\* processSide keeps the account of a position.
LEMMA SideSettles ==
  ASSUME NEW row, NEW c, Settled(row, c), NEW side \in {"BUY", "SELL"}, NEW p \in Price, NEW q \in Quantity,
         NEW x, x = -(Signed(side, q) * p)
  PROVE  /\ Settled(ProcessSide(row, side, p, q), Plus(c, Whole(x)))
         /\ ProcessSide(row, side, p, q).size = row.size + Signed(side, q)
<1>1. row \in Row /\ c \in Rational /\ InRange(row) /\ Same(Proceeds(row), c)
  BY DEF Settled
<1>2. p \in Nat \ {0} /\ q \in Nat \ {0}
  BY PositionAssumption
<1>3. Signed(side, q) \in Int /\ Signed(side, q) # 0
  BY <1>2 DEF Signed
<1>4. PICK t \in Int : t = Signed(side, q) /\ t # 0
  BY <1>3
<1>5. PICK new : new = ProcessSide(row, side, p, q)
  OBVIOUS
<1>6. /\ new.size = row.size + t /\ Accounts(row, new, c, t, p) /\ new \in Row
      /\ new.size = 0 => new.averageEntryPrice = Whole(0)
  <2>1. CASE Sign(row.size) = Sign(Signed(side, q)) \/ row.size = 0
    <3>1. new.size = row.size + t /\ Accounts(row, new, c, t, p) /\ new \in Row
      BY <1>1, <1>2, <1>4, <1>5, <2>1, ScaleIn
    <3>2. new.size # 0
      <4>1. row.size \in Int
        BY <1>1 DEF Row
      <4> QED BY <1>4, <2>1, <3>1, <4>1 DEF Sign
    <3> QED BY <3>1, <3>2
  <2>2. CASE ~(Sign(row.size) = Sign(Signed(side, q)) \/ row.size = 0)
    BY <1>1, <1>2, <1>4, <1>5, <2>2, ScaleOut
  <2> QED BY <2>1, <2>2
<1>7. x \in Int /\ x = -(t * p)
  BY <1>2, <1>4
<1>8. Same(Proceeds(new), Plus(c, Whole(x))) /\ Plus(c, Whole(x)) \in Rational
  BY <1>1, <1>2, <1>6, <1>7, AccountsForCash
<1>9. InRange(new)
  BY <1>1, <1>6, AccountsInRange
<1> QED BY <1>4, <1>5, <1>6, <1>8, <1>9 DEF Settled

-----------------------------------------------------------------------------
Position == [row : Row, isDirty : BOOLEAN]
Positions == [User -> Position]
Message == [user : User, row : Row]

Sizes(p) == SumFunctionOnSet([u \in User |-> p[u].row.size], User)

Typed ==
  /\ pos \in Positions /\ table \in [User -> Row] /\ cash \in [User -> Rational]
  /\ flush \in {"idle", "begin", "upsert", "commit", "rollback"}
  /\ todo \subseteq User /\ sent \subseteq Message /\ work \subseteq Message
  /\ sent # {} <=> flush = "upsert"
  /\ work # {} => flush \in {"upsert", "commit"}
  /\ raced \in BOOLEAN
  /\ trades \in 0..MaxTrades /\ faults \in 0..MaxFaults /\ crashes \in 0..MaxCrashes

\* Every position accounts for its cash.
AllSettled(p, c) == \A u \in User : Settled(p[u].row, c[u])

\* What is stored or on its way to the table has entry prices in range, so that init may load it.
RowsInRange ==
  /\ \A u \in User : InRange(table[u])
  /\ \A m \in sent \cup work : InRange(m.row)

PositionInv == Typed /\ AllSettled(pos, cash) /\ RowsInRange /\ ZeroSum

LEMMA SettledClosed == Settled(Closed, Whole(0)) /\ Closed \in Row /\ Whole(0) \in Rational
<1>1. Whole(0) \in Rational /\ Means(Whole(0), 0, 1)
  BY DEF Whole, Rational, Means
<1>2. Closed \in Row /\ InRange(Closed)
  BY <1>1 DEF Closed, Row, InRange
<1>3. Means(Proceeds(Closed), 0 - 0 * 0, 1)
  <2>1. Closed.size = 0 /\ Means(Closed.averageEntryPrice, 0, 1) /\ Means(Closed.realizedPnl, 0, 1)
    BY <1>1 DEF Closed
  <2> HIDE DEF Closed
  <2>2. Means(Proceeds(Closed), 0 - Closed.size * 0, 1)
    BY <1>2, <2>1, ProceedsMean
  <2> QED BY <2>1, <2>2
<1>4. 0 - 0 * 0 = 0
  OBVIOUS
<1> QED BY <1>1, <1>2, <1>3, <1>4, SameMeans DEF Settled

LEMMA PositionsStart == Init => PositionInv
<1> SUFFICES ASSUME Init PROVE PositionInv
  OBVIOUS
<1>1. Typed
  <2>1. Flat \in Position
    BY SettledClosed DEF Flat, Position
  <2>2. pos \in Positions /\ table \in [User -> Row] /\ cash \in [User -> Rational]
    <3>1. pos = [u \in User |-> Flat] /\ table = [u \in User |-> Closed] /\ cash = [u \in User |-> Whole(0)]
      BY DEF Init
    <3> QED BY <2>1, <3>1, SettledClosed DEF Positions
  <2>3. trades \in 0..MaxTrades /\ faults \in 0..MaxFaults /\ crashes \in 0..MaxCrashes
    BY PositionAssumption DEF Init
  <2> QED BY <2>2, <2>3 DEF Init, Typed
<1>2. AllSettled(pos, cash)
  BY SettledClosed DEF Init, AllSettled, Flat
<1>3. RowsInRange
  BY SettledClosed DEF Init, RowsInRange, Settled
<1>4. ZeroSum
  <2> DEFINE f == [u \in User |-> pos[u].row.size]
  <2>1. \A u \in User : f[u] = 0
    BY DEF Init, Flat, Closed
  <2>2. IsFiniteSet(User)
    BY PositionAssumption
  <2> HIDE DEF f
  <2>3. SumFunctionOnSet(f, User) = 0
    BY <2>1, <2>2, SumZero
  <2> QED BY <2>3 DEF ZeroSum, f
<1> QED BY <1>1, <1>2, <1>3, <1>4 DEF PositionInv

\* P and K become P2 and K2 by a side of a trade that pays x.
Sided(P, K, P2, K2, u, side, p, q, x) ==
  P2 = [P EXCEPT ![u] = Applied(P[u], side, p, q)] /\ K2 = [K EXCEPT ![u] = Plus(K[u], Whole(x))]

SettledAfter(P, P2, K2, t) ==
  P2 \in Positions /\ K2 \in [User -> Rational] /\ AllSettled(P2, K2) /\ Sizes(P2) = Sizes(P) + t

\* One side of a trade, in the positions, the cash and the sizes.
LEMMA OneSide ==
  ASSUME NEW P \in Positions, NEW K \in [User -> Rational], AllSettled(P, K),
         NEW u \in User, NEW side \in {"BUY", "SELL"}, NEW p \in Price, NEW q \in Quantity,
         NEW x, x = -(Signed(side, q) * p),
         NEW P2, NEW K2, Sided(P, K, P2, K2, u, side, p, q, x)
  PROVE  SettledAfter(P, P2, K2, Signed(side, q))
<1>1. Settled(P[u].row, K[u])
  BY DEF AllSettled
<1>2. PICK new : new = ProcessSide(P[u].row, side, p, q)
  OBVIOUS
<1>3. PICK c : c = Plus(K[u], Whole(x))
  OBVIOUS
<1>4. Settled(new, c) /\ new.size = P[u].row.size + Signed(side, q)
  BY <1>1, <1>2, <1>3, SideSettles
<1>5. new \in Row /\ c \in Rational
  BY <1>4 DEF Settled
<1>6. P2 = [P EXCEPT ![u] = [row |-> new, isDirty |-> TRUE]] /\ K2 = [K EXCEPT ![u] = c]
  BY <1>2, <1>3 DEF Applied, Sided
<1>7. P2 \in Positions /\ K2 \in [User -> Rational]
  <2>1. [row |-> new, isDirty |-> TRUE] \in Position
    BY <1>5 DEF Position
  <2> QED BY <1>5, <1>6, <2>1 DEF Positions
<1>8. AllSettled(P2, K2)
  <2> SUFFICES ASSUME NEW v \in User PROVE Settled(P2[v].row, K2[v])
    BY DEF AllSettled
  <2>1. CASE v = u
    <3>1. P2[v].row = new /\ K2[v] = c
      BY <1>6, <2>1 DEF Positions
    <3> QED BY <1>4, <3>1
  <2>2. CASE v # u
    <3>1. P2[v].row = P[v].row /\ K2[v] = K[v]
      BY <1>6, <2>2 DEF Positions
    <3> QED BY <3>1 DEF AllSettled
  <2> QED BY <2>1, <2>2
<1>9. Sizes(P2) = Sizes(P) + Signed(side, q)
  <2> DEFINE f == [v \in User |-> P[v].row.size]
             h == [v \in User |-> P2[v].row.size]
  <2>1. \A v \in User : f[v] = P[v].row.size /\ h[v] = P2[v].row.size /\ P[v].row \in Row /\ P2[v].row \in Row
    BY <1>7 DEF Positions, Position
  <2>2. \A v \in User : f[v] \in Int /\ h[v] \in Int
    BY <2>1 DEF Row
  <2>3. \A v \in User : v # u => h[v] = f[v]
    BY <1>6, <2>1 DEF Positions
  <2>4. h[u] = f[u] + Signed(side, q)
    BY <1>4, <1>6, <2>1 DEF Positions
  <2>5. IsFiniteSet(User) /\ Signed(side, q) \in Int
    BY PositionAssumption DEF Signed
  <2> HIDE DEF f, h
  <2>6. SumFunctionOnSet(h, User) = SumFunctionOnSet(f, User) + h[u] - f[u]
    BY <2>2, <2>3, <2>5, SumUpdate
  <2>7. SumFunctionOnSet(f, User) \in Int
    BY <2>2, <2>5, SumType
  <2>8. SumFunctionOnSet(h, User) = SumFunctionOnSet(f, User) + Signed(side, q)
    BY <2>2, <2>4, <2>5, <2>6, <2>7
  <2> QED BY <2>8 DEF Sizes, f, h
<1> QED BY <1>7, <1>8, <1>9 DEF SettledAfter

-----------------------------------------------------------------------------
\* The steps keep the invariant.
LEMMA TradeKeeps ==
  ASSUME PositionInv, NEW b \in User, NEW s \in User, NEW price \in Price, NEW quantity \in Quantity,
         HandleTrade(b, s, price, quantity)
  PROVE  PositionInv'
<1>1. Typed /\ AllSettled(pos, cash) /\ RowsInRange /\ ZeroSum
  BY DEF PositionInv
<1>2. price \in Nat \ {0} /\ quantity \in Nat \ {0}
  BY PositionAssumption
<1>3. Signed("BUY", quantity) = quantity /\ Signed("SELL", quantity) = -quantity
  BY DEF Signed
<1>4. -price * quantity = -(Signed("BUY", quantity) * price) /\ price * quantity = -(Signed("SELL", quantity) * price)
  <2>1. PICK m \in Int, n \in Int : m = price /\ n = quantity
    BY <1>2
  <2>2. -m * n = -(n * m) /\ m * n = -((-n) * m)
    OBVIOUS
  <2> QED BY <1>3, <2>1, <2>2
<1>5. PICK P : P = [pos EXCEPT ![b] = Applied(@, "BUY", price, quantity)]
  OBVIOUS
<1>6. PICK K : K = [cash EXCEPT ![b] = Plus(@, Whole(-price * quantity))]
  OBVIOUS
<1>7. P \in Positions /\ K \in [User -> Rational] /\ AllSettled(P, K) /\ Sizes(P) = Sizes(pos) + quantity
  <2>1. pos \in Positions /\ cash \in [User -> Rational]
    BY <1>1 DEF Typed
  <2>2. PICK x : x = -price * quantity
    OBVIOUS
  <2>3. x = -(Signed("BUY", quantity) * price) /\ K = [cash EXCEPT ![b] = Plus(@, Whole(x))]
    BY <1>4, <1>6, <2>2
  <2>4. Sided(pos, cash, P, K, b, "BUY", price, quantity, x)
    BY <1>5, <2>3 DEF Sided
  <2>5. "BUY" \in {"BUY", "SELL"}
    OBVIOUS
  <2>6. SettledAfter(pos, P, K, Signed("BUY", quantity))
    BY <1>1, <2>1, <2>3, <2>4, <2>5, OneSide
  <2> QED BY <1>3, <2>6 DEF SettledAfter
<1>8. pos' = [P EXCEPT ![s] = Applied(@, "SELL", price, quantity)] /\ cash' = [K EXCEPT ![s] = Plus(@, Whole(price * quantity))]
  BY <1>5, <1>6 DEF HandleTrade
<1>9. pos' \in Positions /\ cash' \in [User -> Rational] /\ AllSettled(pos', cash') /\ Sizes(pos') = Sizes(P) + (-quantity)
  <2>1. PICK x : x = price * quantity
    OBVIOUS
  <2>2. x = -(Signed("SELL", quantity) * price) /\ cash' = [K EXCEPT ![s] = Plus(@, Whole(x))]
    BY <1>4, <1>8, <2>1
  <2>3. PICK P2, K2 : P2 = pos' /\ K2 = cash'
    OBVIOUS
  <2>4. Sided(P, K, P2, K2, s, "SELL", price, quantity, x)
    BY <1>8, <2>2, <2>3 DEF Sided
  <2>5. "SELL" \in {"BUY", "SELL"}
    OBVIOUS
  <2>6. SettledAfter(P, P2, K2, Signed("SELL", quantity))
    BY <1>7, <2>2, <2>4, <2>5, OneSide
  <2> QED BY <1>3, <2>3, <2>6 DEF SettledAfter
<1>10. Typed'
  <2>1. trades' \in 0..MaxTrades
    BY <1>1, PositionAssumption DEF HandleTrade, Typed
  <2>2. raced' \in BOOLEAN
    BY <1>1 DEF HandleTrade, Typed
  <2> QED BY <1>1, <1>9, <2>1, <2>2 DEF HandleTrade, Typed, flushvars
<1>11. RowsInRange'
  BY <1>1 DEF HandleTrade, RowsInRange, flushvars
<1>12. ZeroSum'
  <2>1. crashes' = crashes
    BY DEF HandleTrade
  <2>2. ASSUME crashes = 0 PROVE Sizes(pos') = 0
    <3>1. Sizes(pos) = 0
      BY <1>1, <2>2 DEF ZeroSum, Sizes
    <3> QED BY <1>2, <1>7, <1>9, <3>1
  <2> QED BY <2>1, <2>2 DEF ZeroSum, Sizes
<1>13. AllSettled(pos, cash)'
  BY <1>9
<1> QED BY <1>10, <1>11, <1>12, <1>13 DEF PositionInv

\* The next UPSERT, with the row a position has now; or COMMIT.
LEMMA SendsRows ==
  ASSUME PositionInv, NEW rest \in SUBSET User, SendNext(rest, pos)
  PROVE  /\ todo' \subseteq User /\ sent' \subseteq Message /\ flush' \in {"upsert", "commit"}
         /\ sent' # {} <=> flush' = "upsert"
         /\ \A m \in sent' : InRange(m.row) /\ m.user \in rest /\ m.row = pos[m.user].row
<1>1. \A u \in User : pos[u].row \in Row /\ InRange(pos[u].row)
  BY DEF PositionInv, AllSettled, Settled
<1>2. todo' = rest
  BY DEF SendNext
<1>3. CASE rest = {}
  BY <1>2, <1>3 DEF SendNext
<1>4. CASE rest # {}
  <2>1. PICK u \in rest : flush' = "upsert" /\ sent' = {[user |-> u, row |-> pos[u].row]}
    BY <1>4 DEF SendNext
  <2>2. [user |-> u, row |-> pos[u].row] \in Message
    BY <1>1 DEF Message
  <2> QED BY <1>1, <1>2, <2>1, <2>2
<1> QED BY <1>3, <1>4

LEMMA BeginKeeps ==
  ASSUME PositionInv, BeginDone
  PROVE  PositionInv'
<1>1. todo \in SUBSET User /\ SendNext(todo, pos)
  BY DEF PositionInv, Typed, BeginDone
<1>2. /\ todo' \subseteq User /\ sent' \subseteq Message /\ flush' \in {"upsert", "commit"}
      /\ sent' # {} <=> flush' = "upsert"
      /\ \A m \in sent' : InRange(m.row)
  BY <1>1, SendsRows
<1>3. UNCHANGED <<pos, table, work, cash, raced, trades, faults, crashes>>
  BY DEF BeginDone
<1>4. Typed'
  BY <1>2, <1>3 DEF PositionInv, Typed
<1>5. AllSettled(pos, cash)' /\ ZeroSum'
  BY <1>3 DEF PositionInv, AllSettled, ZeroSum
<1>6. RowsInRange'
  BY <1>2, <1>3 DEF PositionInv, RowsInRange
<1> QED BY <1>4, <1>5, <1>6 DEF PositionInv

\* Clearing a flag changes no row.
Cleared(P, P2, u) == P2 = [P EXCEPT ![u].isDirty = FALSE]
SameRows(P, P2, u) ==
  /\ P2 \in Positions /\ Sizes(P2) = Sizes(P)
  /\ \A v \in User : P2[v].row = P[v].row /\ P2[v].isDirty = (IF v = u THEN FALSE ELSE P[v].isDirty)

LEMMA FlagCleared ==
  ASSUME NEW P \in Positions, NEW u \in User, NEW P2, Cleared(P, P2, u)
  PROVE  SameRows(P, P2, u)
<1>1. P[u] \in Position
  BY DEF Positions
<1>2. PICK r \in Row, d \in BOOLEAN : P[u] = [row |-> r, isDirty |-> d]
  BY <1>1 DEF Position
<1>3. [P[u] EXCEPT !.isDirty = FALSE] = [row |-> r, isDirty |-> FALSE]
  <2>1. ASSUME NEW x, NEW old, x = [row |-> r, isDirty |-> old], NEW new
        PROVE  [x EXCEPT !.isDirty = new] = [row |-> r, isDirty |-> new]
    BY <2>1
  <2>2. \A x, old, new : x = [row |-> r, isDirty |-> old] => [x EXCEPT !.isDirty = new] = [row |-> r, isDirty |-> new]
    BY <2>1
  <2> QED BY <1>2, <2>2, Zenon
<1>4. [row |-> r, isDirty |-> FALSE] \in Position
  BY DEF Position
<1>5. P2 = [P EXCEPT ![u] = [row |-> r, isDirty |-> FALSE]]
  BY <1>3 DEF Cleared
<1>6. P2 \in Positions /\ \A v \in User : P2[v] = IF v = u THEN [row |-> r, isDirty |-> FALSE] ELSE P[v]
  BY <1>4, <1>5 DEF Positions
<1>7. \A v \in User : P2[v].row = P[v].row /\ P2[v].isDirty = (IF v = u THEN FALSE ELSE P[v].isDirty)
  <2> SUFFICES ASSUME NEW v \in User
               PROVE  P2[v].row = P[v].row /\ P2[v].isDirty = (IF v = u THEN FALSE ELSE P[v].isDirty)
    OBVIOUS
  <2>1. CASE v = u
    <3>1. P2[v] = [row |-> r, isDirty |-> FALSE] /\ P[v] = [row |-> r, isDirty |-> d]
      BY <1>2, <1>6, <2>1
    <3> QED BY <2>1, <3>1
  <2>2. CASE v # u
    BY <1>6, <2>2
  <2> QED BY <2>1, <2>2
<1>8. [v \in User |-> P2[v].row.size] = [v \in User |-> P[v].row.size]
  BY <1>7
<1> QED BY <1>6, <1>7, <1>8 DEF Sizes, SameRows

LEMMA UpsertKeeps ==
  ASSUME PositionInv, UpsertDone
  PROVE  PositionInv'
<1>1. PICK m \in sent : work' = work \cup {m} /\ pos' = [pos EXCEPT ![m.user].isDirty = FALSE] /\ SendNext(todo \ {m.user}, pos)
  BY DEF UpsertDone
<1>2. m \in Message /\ m.user \in User /\ InRange(m.row) /\ todo \ {m.user} \in SUBSET User /\ pos \in Positions
  BY DEF PositionInv, Typed, Message, RowsInRange
<1>3. /\ todo' \subseteq User /\ sent' \subseteq Message /\ flush' \in {"upsert", "commit"}
      /\ sent' # {} <=> flush' = "upsert"
      /\ \A n \in sent' : InRange(n.row)
  BY <1>1, <1>2, SendsRows
<1>4. UNCHANGED <<table, cash, raced, trades, faults, crashes>>
  BY DEF UpsertDone
<1>5. pos' \in Positions /\ (\A v \in User : pos'[v].row = pos[v].row) /\ Sizes(pos') = Sizes(pos)
  <2>1. PICK P2 : P2 = pos'
    OBVIOUS
  <2>2. Cleared(pos, P2, m.user)
    BY <1>1, <2>1 DEF Cleared
  <2>3. SameRows(pos, P2, m.user)
    BY <1>2, <2>2, FlagCleared
  <2> QED BY <2>1, <2>3 DEF SameRows
<1>6. Typed'
  BY <1>1, <1>2, <1>3, <1>4, <1>5 DEF PositionInv, Typed
<1>7. AllSettled(pos, cash)'
  BY <1>4, <1>5 DEF PositionInv, AllSettled
<1>8. ZeroSum'
  BY <1>4, <1>5 DEF PositionInv, ZeroSum, Sizes
<1>9. RowsInRange'
  BY <1>1, <1>2, <1>3, <1>4 DEF PositionInv, RowsInRange
<1> QED BY <1>6, <1>7, <1>8, <1>9 DEF PositionInv

LEMMA CommitKeeps ==
  ASSUME PositionInv, CommitDone
  PROVE  PositionInv'
<1>1. \A u \in User : table'[u] = table[u] \/ \E m \in work : m.user = u /\ table'[u] = m.row
  <2> SUFFICES ASSUME NEW u \in User, table'[u] # table[u] PROVE \E m \in work : m.user = u /\ table'[u] = m.row
    OBVIOUS
  <2>1. (\E m \in work : m.user = u) /\ table'[u] = (CHOOSE m \in work : m.user = u).row
    BY DEF CommitDone
  <2> QED BY <2>1
<1>2. table' \in [User -> Row] /\ \A u \in User : InRange(table'[u])
  <2>1. \A m \in work : m.row \in Row /\ InRange(m.row)
    BY DEF PositionInv, Typed, Message, RowsInRange
  <2>2. \A u \in User : table[u] \in Row /\ InRange(table[u])
    BY DEF PositionInv, Typed, RowsInRange
  <2>3. \A u \in User : table'[u] \in Row /\ InRange(table'[u])
    BY <1>1, <2>1, <2>2
  <2>4. PICK f : f = [u \in User |-> IF \E m \in work : m.user = u
                                     THEN (CHOOSE m \in work : m.user = u).row ELSE table[u]]
    OBVIOUS
  <2>5. table' = f
    BY <2>4 DEF CommitDone
  <2>6. f \in [User -> Row]
    BY <2>3, <2>4, <2>5
  <2> QED BY <2>3, <2>5, <2>6
<1>3. UNCHANGED <<pos, cash, raced, trades, faults, crashes>> /\ Ended("idle")
  BY DEF CommitDone
<1>4. Typed'
  BY <1>2, <1>3 DEF PositionInv, Typed, Ended
<1>5. AllSettled(pos, cash)' /\ ZeroSum'
  BY <1>3 DEF PositionInv, AllSettled, ZeroSum
<1>6. RowsInRange'
  BY <1>2, <1>3 DEF RowsInRange, Ended
<1> QED BY <1>4, <1>5, <1>6 DEF PositionInv

\* What init loads accounts for the cash that the row has earned.
LEMMA RestartKeeps ==
  ASSUME PositionInv, Restart
  PROVE  PositionInv'
<1>1. PICK P : P = [u \in User |-> IF table[u].size = 0 THEN Flat ELSE [row |-> table[u], isDirty |-> FALSE]]
  OBVIOUS
<1>2. pos' = P /\ cash' = [u \in User |-> Proceeds(P[u].row)]
  BY <1>1 DEF Restart
<1>3. \A u \in User : P[u] \in Position /\ P[u].row \in Row /\ InRange(P[u].row)
  <2> SUFFICES ASSUME NEW u \in User PROVE P[u] \in Position /\ P[u].row \in Row /\ InRange(P[u].row)
    OBVIOUS
  <2>1. table[u] \in Row /\ InRange(table[u])
    BY DEF PositionInv, Typed, RowsInRange
  <2>2. CASE table[u].size = 0
    <3>1. P[u] = [row |-> Closed, isDirty |-> FALSE]
      BY <1>1, <2>2 DEF Flat
    <3>2. Closed \in Row /\ InRange(Closed)
      BY SettledClosed DEF Settled
    <3> QED BY <3>1, <3>2 DEF Position
  <2>3. CASE table[u].size # 0
    BY <1>1, <2>1, <2>3 DEF Position
  <2> QED BY <2>2, <2>3
<1>4. \A u \in User : Proceeds(P[u].row) \in Rational /\ Same(Proceeds(P[u].row), Proceeds(P[u].row))
  <2> SUFFICES ASSUME NEW r \in Row PROVE Proceeds(r) \in Rational /\ Same(Proceeds(r), Proceeds(r))
    BY <1>3
  <2>1. r.averageEntryPrice \in Rational /\ r.realizedPnl \in Rational
    BY DEF Row
  <2>2. PICK D \in Nat \ {0}, A \in Int, R \in Int : Means(r.averageEntryPrice, A, D) /\ Means(r.realizedPnl, R, D)
    BY <2>1, CommonDenominator
  <2>3. Means(Proceeds(r), R - r.size * A, D)
    BY <2>2, ProceedsMean
  <2> QED BY <2>3, SameMeans DEF Means
<1>5. pos' \in Positions /\ cash' \in [User -> Rational] /\ AllSettled(pos', cash')
  <2>1. P \in Positions
    BY <1>1, <1>3 DEF Positions
  <2> QED BY <1>2, <1>3, <1>4, <2>1 DEF AllSettled, Settled
<1>6. crashes' \in 0..MaxCrashes /\ crashes' # 0
  BY PositionAssumption DEF PositionInv, Typed, Restart
<1>7. UNCHANGED <<table, raced, trades, faults>> /\ Ended("idle")
  BY DEF Restart
<1>8. Typed'
  BY <1>5, <1>6, <1>7 DEF PositionInv, Typed, Ended
<1>9. RowsInRange'
  BY <1>7 DEF PositionInv, RowsInRange, Ended
<1>10. ZeroSum'
  BY <1>6 DEF ZeroSum
<1>11. AllSettled(pos, cash)'
  BY <1>5
<1> QED BY <1>8, <1>9, <1>10, <1>11 DEF PositionInv

LEMMA PositionStep ==
  ASSUME PositionInv, [Next]_vars
  PROVE  PositionInv'
<1>1. ASSUME NEW b \in User, NEW s \in User, NEW price \in Price, NEW quantity \in Quantity, HandleTrade(b, s, price, quantity)
      PROVE  PositionInv'
  BY <1>1, TradeKeeps
<1>2. CASE StartFlush
  <2>1. UNCHANGED <<pos, table, sent, work, cash, raced, trades, faults, crashes>> /\ flush = "idle" /\ flush' = "begin" /\ todo' = Dirty
    BY <1>2 DEF StartFlush
  <2>2. Dirty \subseteq User
    BY DEF Dirty
  <2>3. Typed'
    BY <2>1, <2>2 DEF PositionInv, Typed
  <2> QED BY <2>1, <2>3 DEF PositionInv, AllSettled, RowsInRange, ZeroSum
<1>3. CASE BeginDone
  BY <1>3, BeginKeeps
<1>4. CASE UpsertDone
  BY <1>4, UpsertKeeps
<1>5. CASE CommitDone
  BY <1>5, CommitKeeps
<1>6. CASE RollbackDone
  <2>1. UNCHANGED <<pos, table, cash, raced, trades, faults, crashes>> /\ Ended("idle")
    BY <1>6 DEF RollbackDone
  <2>2. Typed'
    BY <2>1 DEF PositionInv, Typed, Ended
  <2> QED BY <2>1, <2>2 DEF PositionInv, AllSettled, RowsInRange, ZeroSum, Ended
<1>7. CASE Fault
  <2>1. UNCHANGED <<pos, table, cash, raced, trades, crashes>> /\ Ended("rollback")
    BY <1>7 DEF Fault
  <2>2. faults' \in 0..MaxFaults
    BY <1>7, PositionAssumption DEF PositionInv, Typed, Fault
  <2>3. Typed'
    BY <2>1, <2>2 DEF PositionInv, Typed, Ended
  <2> QED BY <2>1, <2>3 DEF PositionInv, AllSettled, RowsInRange, ZeroSum, Ended
<1>8. CASE Restart
  BY <1>8, RestartKeeps
<1>9. CASE UNCHANGED vars
  BY <1>9 DEF PositionInv, Typed, AllSettled, RowsInRange, ZeroSum, vars
<1> QED
  BY <1>1, <1>2, <1>3, <1>4, <1>5, <1>6, <1>7, <1>8, <1>9 DEF Next, Flush

\* The inductive invariant holds in every behaviour of the position engine.
THEOREM PositionInvariant == Spec => []PositionInv
<1>1. Init => PositionInv
  BY PositionsStart
<1>2. PositionInv /\ [Next]_vars => PositionInv'
  BY PositionStep
<1> QED BY <1>1, <1>2, PTL DEF Spec

\* processSide accounts for all money: what a position has realized and what its size has
\* cost is what its trades have paid, for any users, prices, quantities, crashes and failed
\* flushes.
THEOREM PositionCash == Spec => []CashFlow
<1>1. PositionInv => CashFlow
  <2> SUFFICES ASSUME PositionInv PROVE CashFlow
    OBVIOUS
  <2>1. \A u \in User : Settled(pos[u].row, cash[u]) /\ pos[u] \in Position /\ table[u] \in Row
    BY DEF PositionInv, AllSettled, Typed, Positions
  <2>2. \A x \in Rational : IsRatio(x)
    BY DEF Rational, IsRatio
  <2>3. \A r \in Row : IsRow(r)
    BY <2>2 DEF Row, IsRow
  <2>4. \A u \in User : IsRow(pos[u].row) /\ pos[u].isDirty \in BOOLEAN /\ IsRow(table[u]) /\ IsRatio(cash[u])
    BY <2>1, <2>2, <2>3 DEF Settled, Position
  <2>5. \A m \in sent \cup work : m.user \in User /\ IsRow(m.row)
    BY <2>3 DEF PositionInv, Typed, Message
  <2>6. TypeOK
    BY <2>4, <2>5 DEF PositionInv, Typed, TypeOK
  <2> QED BY <2>1, <2>6 DEF CashFlow, Settled
<1> QED BY <1>1, PositionInvariant, PTL

\* The entry price of an open position lies between prices that were traded, through any
\* scaling, flip, crash and reload.
THEOREM PositionPrices == Spec => []EntryPriceInRange
<1>1. PositionInv => EntryPriceInRange
  BY DEF PositionInv, AllSettled, Settled, InRange, EntryPriceInRange
<1> QED BY <1>1, PositionInvariant, PTL

\* What is held is what is sold, trades of a user with himself included, until a crash
\* forgets what was not flushed.
THEOREM PositionSizes == Spec => []ZeroSum
<1>1. PositionInv => ZeroSum
  BY DEF PositionInv
<1> QED BY <1>1, PositionInvariant, PTL

-----------------------------------------------------------------------------
\* Where nothing has raced or failed, a flush in flight has exactly the dirty positions
\* still to write, what it sends and has written are the rows the positions have now, and
\* every other position is in the table.
InFlight ==
  /\ flush # "rollback"
  /\ flush # "idle" => todo = Dirty
  /\ \A m \in sent \cup work : m.row = pos[m.user].row
  /\ \A u \in User : ~pos[u].isDirty => table[u] = pos[u].row \/ \E m \in work : m.user = u

SyncInv == ~raced /\ faults = 0 /\ crashes = 0 => InFlight

\* A trade between flushes makes the positions dirty that it changes.
LEMMA TradeLeavesFlush ==
  ASSUME PositionInv, InFlight, flush = "idle", NEW b \in User, NEW s \in User, NEW price \in Price, NEW quantity \in Quantity,
         HandleTrade(b, s, price, quantity)
  PROVE  InFlight'
<1>1. pos \in Positions /\ sent = {} /\ work = {}
  BY DEF PositionInv, Typed
<1>2. UNCHANGED <<table, flush, todo, sent, work>>
  BY DEF HandleTrade, flushvars
<1>3. \A u \in User : ~pos'[u].isDirty => ~pos[u].isDirty /\ pos'[u].row = pos[u].row
  <2> SUFFICES ASSUME NEW u \in User, ~pos'[u].isDirty PROVE pos'[u] = pos[u]
    OBVIOUS
  <2>1. PICK P : P = [pos EXCEPT ![b] = Applied(@, "BUY", price, quantity)]
    OBVIOUS
  <2>2. pos' = [P EXCEPT ![s] = Applied(@, "SELL", price, quantity)]
    BY <2>1 DEF HandleTrade
  <2>3. DOMAIN P = User /\ DOMAIN pos = User
    BY <1>1, <2>1 DEF Positions
  <2>4. \A p, side : Applied(p, side, price, quantity).isDirty = TRUE
    BY DEF Applied
  <2>5. u # s
    <3>1. pos'[s] = Applied(P[s], "SELL", price, quantity)
      BY <2>2, <2>3
    <3> QED BY <2>4, <3>1
  <2>6. pos'[u] = P[u]
    BY <2>2, <2>3, <2>5
  <2>7. u # b
    <3>1. P[b] = Applied(pos[b], "BUY", price, quantity)
      BY <2>1, <2>3
    <3> QED BY <2>4, <2>6, <3>1
  <2> QED BY <2>1, <2>3, <2>6, <2>7
<1> QED BY <1>1, <1>2, <1>3 DEF InFlight

\* An UPSERT that nothing raced writes the row that the position has.
LEMMA UpsertLeavesFlush ==
  ASSUME PositionInv, InFlight, UpsertDone
  PROVE  InFlight'
<1>1. PICK m \in sent : work' = work \cup {m} /\ pos' = [pos EXCEPT ![m.user].isDirty = FALSE] /\ SendNext(todo \ {m.user}, pos)
  BY DEF UpsertDone
<1>2. m.user \in User /\ m.row = pos[m.user].row /\ pos \in Positions /\ todo = Dirty /\ work \subseteq Message
  BY DEF PositionInv, Typed, Message, InFlight, UpsertDone
<1>3. todo \ {m.user} \in SUBSET User
  BY DEF PositionInv, Typed
<1>4. /\ flush' \in {"upsert", "commit"} /\ todo' = todo \ {m.user} /\ sent' \subseteq Message
      /\ \A n \in sent' : n.row = pos[n.user].row
  BY <1>1, <1>3, SendsRows DEF SendNext
<1>5. \A v \in User : pos'[v].row = pos[v].row /\ pos'[v].isDirty = (IF v = m.user THEN FALSE ELSE pos[v].isDirty)
  <2>1. PICK P2 : P2 = pos'
    OBVIOUS
  <2>2. Cleared(pos, P2, m.user)
    BY <1>1, <2>1 DEF Cleared
  <2>3. SameRows(pos, P2, m.user)
    BY <1>2, <2>2, FlagCleared
  <2> QED BY <2>1, <2>3 DEF SameRows
<1>6. todo' = Dirty'
  BY <1>2, <1>4, <1>5 DEF Dirty
<1>7. \A n \in sent' \cup work' : n.row = pos'[n.user].row
  <2>1. \A n \in sent' \cup work' : n.user \in User /\ n.row = pos[n.user].row
    BY <1>1, <1>2, <1>4 DEF InFlight, Message
  <2> QED BY <1>5, <2>1
<1>8. \A u \in User : ~pos'[u].isDirty => table'[u] = pos'[u].row \/ \E n \in work' : n.user = u
  <2>1. table' = table
    BY DEF UpsertDone
  <2> SUFFICES ASSUME NEW u \in User, ~pos'[u].isDirty PROVE table'[u] = pos'[u].row \/ \E n \in work' : n.user = u
    OBVIOUS
  <2>2. CASE u = m.user
    BY <1>1, <2>2
  <2>3. CASE u # m.user
    BY <1>1, <1>5, <2>1, <2>3 DEF InFlight
  <2> QED BY <2>2, <2>3
<1> QED BY <1>4, <1>6, <1>7, <1>8 DEF InFlight

LEMMA SyncStep ==
  ASSUME PositionInv, SyncInv, [Next]_vars
  PROVE  SyncInv'
<1>1. ASSUME NEW b \in User, NEW s \in User, NEW price \in Price, NEW quantity \in Quantity, HandleTrade(b, s, price, quantity)
      PROVE  SyncInv'
  <2> SUFFICES ASSUME ~raced', faults' = 0, crashes' = 0 PROVE InFlight'
    BY DEF SyncInv
  <2>1. flush = "idle" /\ ~raced /\ faults = 0 /\ crashes = 0
    BY <1>1 DEF HandleTrade, PositionInv, Typed
  <2> QED BY <1>1, <2>1, TradeLeavesFlush DEF SyncInv
<1>2. CASE StartFlush
  BY <1>2 DEF StartFlush, SyncInv, InFlight, PositionInv, Typed, Dirty
<1>3. CASE BeginDone
  <2> SUFFICES ASSUME ~raced', faults' = 0, crashes' = 0 PROVE InFlight'
    BY DEF SyncInv
  <2>1. InFlight /\ todo = Dirty /\ todo \in SUBSET User /\ SendNext(todo, pos)
    BY <1>3 DEF SyncInv, InFlight, BeginDone, PositionInv, Typed
  <2>2. UNCHANGED <<pos, table, work>>
    BY <1>3 DEF BeginDone
  <2>3. flush' \in {"upsert", "commit"} /\ todo' = todo /\ \A n \in sent' : n.row = pos[n.user].row
    BY <2>1, SendsRows DEF SendNext
  <2> QED BY <2>1, <2>2, <2>3 DEF InFlight, Dirty
<1>4. CASE UpsertDone
  <2> SUFFICES ASSUME ~raced', faults' = 0, crashes' = 0 PROVE InFlight'
    BY DEF SyncInv
  <2>1. InFlight
    BY <1>4 DEF SyncInv, UpsertDone
  <2> QED BY <1>4, <2>1, UpsertLeavesFlush
<1>5. CASE CommitDone
  <2> SUFFICES ASSUME ~raced', faults' = 0, crashes' = 0 PROVE InFlight'
    BY DEF SyncInv
  <2>1. InFlight
    BY <1>5 DEF SyncInv, CommitDone
  <2>2. UNCHANGED pos /\ flush' = "idle" /\ sent' = {} /\ work' = {}
    BY <1>5 DEF CommitDone, Ended
  <2>3. \A u \in User : ~pos[u].isDirty => table'[u] = pos[u].row
    <3> SUFFICES ASSUME NEW u \in User, ~pos[u].isDirty PROVE table'[u] = pos[u].row
      OBVIOUS
    <3>1. CASE \E m \in work : m.user = u
      <4>1. PICK m : m = CHOOSE n \in work : n.user = u
        OBVIOUS
      <4>2. m \in work /\ m.user = u
        BY <3>1, <4>1
      <4>3. table'[u] = m.row
        BY <1>5, <3>1, <4>1 DEF CommitDone
      <4> QED BY <2>1, <4>2, <4>3 DEF InFlight
    <3>2. CASE ~\E m \in work : m.user = u
      BY <1>5, <2>1, <3>2 DEF CommitDone, InFlight
    <3> QED BY <3>1, <3>2
  <2> QED BY <2>2, <2>3 DEF InFlight
<1>6. CASE RollbackDone
  BY <1>6 DEF RollbackDone, SyncInv, InFlight
<1>7. CASE Fault
  <2>1. faults' # 0
    BY <1>7 DEF Fault, PositionInv, Typed
  <2> QED BY <2>1 DEF SyncInv
<1>8. CASE Restart
  <2>1. crashes' # 0
    BY <1>8 DEF Restart, PositionInv, Typed
  <2> QED BY <2>1 DEF SyncInv
<1>9. CASE UNCHANGED vars
  BY <1>9 DEF SyncInv, InFlight, Dirty, vars
<1> QED
  BY <1>1, <1>2, <1>3, <1>4, <1>5, <1>6, <1>7, <1>8, <1>9 DEF Next, Flush

\* Between flushes a position that is not dirty is in the table, for any users and trades,
\* unless a trade was handled during a flush or something failed.
THEOREM PositionSynced == Spec => []SyncedUnlessRaced
<1>1. Init => SyncInv
  <2> SUFFICES ASSUME Init PROVE InFlight
    BY DEF SyncInv
  <2> QED BY DEF Init, InFlight, Flat, Closed
<1>2. PositionInv /\ SyncInv /\ [Next]_vars => SyncInv'
  BY SyncStep
<1>3. PositionInv /\ SyncInv => SyncedUnlessRaced
  BY DEF PositionInv, Typed, SyncInv, InFlight, SyncedUnlessRaced, Synced
<1> QED BY <1>1, <1>2, <1>3, PositionInvariant, PTL DEF Spec
=============================================================================
