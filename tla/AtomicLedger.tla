------------------------------ MODULE AtomicLedger ------------------------------
(***************************************************************************)
(* What the ledger promises ("Debits/Credits Cash leg and Asset leg         *)
(* atomically, ensuring no partial states can exist", ledgerEngine.ts:173): *)
(* every call is one funded movement of money, done at once or not at all.  *)
(***************************************************************************)
EXTENDS Integers

CONSTANTS User,      \* owners of wallets
          System,    \* the exchange's own account holder
          Opening,   \* the accounts that exist, with their balances in units
          Seed,      \* USD granted at registration
          Grain,     \* the grains of a unit
          Price, Quantity

VARIABLE balance

Owner == User \cup {System}
Currency == {"USD", "BTC"}
Kind == {"CHECKING", "ESCROW"}
Wallets(o) == {<<o, c, k>> : c \in Currency, k \in Kind}
Account == UNION {Wallets(o) : o \in Owner}
SystemUsd == <<System, "USD", "CHECKING">>

\* The exchange trades out of its checking accounts, users out of escrow.
TradesFrom(o) == IF o = System THEN "CHECKING" ELSE "ESCROW"

Leg(from, to, n) == [from |-> from, to |-> to, amount |-> n]

\* The whole units that an account gets or loses for an amount in grains: nearest, and a half
\* is decided in favour of whoever holds the account.
Given(n) == (2 * n + Grain) \div (2 * Grain)
Taken(n) == (2 * n + Grain - 1) \div (2 * Grain)

\* What an account receives or pays; the legs of a transfer have different currencies, so
\* each account has at most one of either.
In(legs, a) == IF \E l \in legs : l.to = a THEN Given((CHOOSE l \in legs : l.to = a).amount) ELSE 0
Out(legs, a) == IF \E l \in legs : l.from = a THEN Taken((CHOOSE l \in legs : l.from = a).amount) ELSE 0

\* All legs move at once, each from an account that can pay for it in full.
Transfer(legs) ==
    /\ \A l \in legs : {l.from, l.to} \subseteq DOMAIN balance /\ balance[l.from] * Grain >= l.amount
    /\ balance' = [a \in DOMAIN balance |-> balance[a] + In(legs, a) - Out(legs, a)]

Register(u) ==
    /\ Wallets(u) \cap DOMAIN balance = {}
    /\ balance[SystemUsd] >= Seed
    /\ balance' = [a \in DOMAIN balance \cup Wallets(u) |->
                     IF a = SystemUsd THEN balance[a] - Seed
                     ELSE IF a \in DOMAIN balance THEN balance[a]
                     ELSE IF a = <<u, "USD", "CHECKING">> THEN Seed ELSE 0]

Hold(u, c, n) == Transfer({Leg(<<u, c, "CHECKING">>, <<u, c, "ESCROW">>, n)})
Release(u, c, n) == Transfer({Leg(<<u, c, "ESCROW">>, <<u, c, "CHECKING">>, n)})
Settle(b, s, p, q) ==
    Transfer({Leg(<<b, "USD", TradesFrom(b)>>, <<s, "USD", "CHECKING">>, p * q),
              Leg(<<s, "BTC", TradesFrom(s)>>, <<b, "BTC", "CHECKING">>, q)})

Init == balance = Opening

Next ==
    \/ \E u \in User : Register(u)
    \/ \E u \in User, p \in Price, q \in Quantity :
         \/ Hold(u, "USD", p * q) \/ Release(u, "USD", p * q)
         \/ Hold(u, "BTC", q) \/ Release(u, "BTC", q)
    \/ \E b, s \in Owner, p \in Price, q \in Quantity : Settle(b, s, p, q)

Spec == Init /\ [][Next]_balance
=============================================================================
