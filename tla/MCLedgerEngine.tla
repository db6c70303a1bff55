----------------------------- MODULE MCLedgerEngine -----------------------------
(***************************************************************************)
(* The ledger with two users who have traded before, one who has not       *)
(* registered, and an exchange that can pay for one registration.  With    *)
(* two grains in a unit, the cash of the trade is three units and its      *)
(* asset one and a half.                                                   *)
(***************************************************************************)
EXTENDS LedgerEngine
CONSTANTS ana, bob, eve

MCOpening ==
    [a \in Wallets(ana) \cup Wallets(bob) \cup Wallets(System) |->
       IF a[1] = System THEN (IF a[3] = "CHECKING" THEN 3 ELSE 0)
       ELSE CASE a = <<ana, "USD", "CHECKING">> -> 3
              [] a = <<ana, "USD", "ESCROW">> -> 3
              [] a = <<ana, "BTC", "ESCROW">> -> 2
              [] a = <<bob, "USD", "ESCROW">> -> 3
              [] a = <<bob, "BTC", "CHECKING">> -> 2
              [] a = <<bob, "BTC", "ESCROW">> -> 2
              [] OTHER -> 0]
=============================================================================
