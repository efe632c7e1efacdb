----------------------------- MODULE MCBnplCore -----------------------------
(* Model values and bounds for checking BnplCore.                          *)
EXTENDS BnplCore, TLC

CONSTANTS alice, bob, shop, pool, core, treasury, insurance, o1, o2

MCUsers == {alice, bob}
MCBorrowers == {alice}
MCMerchants == {shop}
MCAccounts == {alice, bob, shop, pool, core, treasury, insurance}
MCEndowment == [a \in MCAccounts |-> IF a \in MCUsers THEN 1500 ELSE 0]

(* The deployed protocol: the pool knows its core and the shop is approved.*)
MCInit ==
  /\ UsdcInit /\ LpInit
  /\ bnplCore = Core
  /\ merchants = [m \in Merchants |-> "Approved"]
  /\ billCounter = 1
  /\ bills = [b \in BillIds |-> NoBill]
  /\ userBills = [u \in Users |-> <<>>]
  /\ strained = {}

MCSpec == MCInit /\ [][Next]_vars
=============================================================================
