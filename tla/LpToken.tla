------------------------------- MODULE LpToken -------------------------------
(***************************************************************************)
(* contracts/lp_token: the lending pool and its rebasing share token.      *)
(*                                                                         *)
(* A holder owns raw shares.  A share is worth index / DECIMALS USDC, and  *)
(* the index rises when update_index finds more assets (USDC held plus     *)
(* USDC lent to BNPL Core) than the shares are worth.  Every amount in the *)
(* interface is in USDC and is converted to shares at the current index,   *)
(* rounding down.                                                          *)
(*                                                                         *)
(* Part of a holder's balance is locked: the contract asks BNPL Core.  The *)
(* actions take that answer as the argument `locked`; LpNext below is the  *)
(* pool before set_bnpl_core, when nothing is locked and nothing is lent.  *)
(* borrow, repay and repay_with_burn are only ever called by BNPL Core in  *)
(* the middle of its own transactions: BnplCore models them in place.      *)
(***************************************************************************)
EXTENDS UsdcToken

CONSTANTS
  Pool,            \* the LP token contract's own address
  Decimals,        \* DECIMALS, the index that stands for 1.0
  DepositAmounts,  \* bound: amounts users deposit
  WithdrawAmounts, \* bound: amounts users withdraw
  TransferAmounts, \* bound: amounts moved or burned between holders
  LpApproveAmounts, \* bound: amounts holders approve, which may be negative
  Underlyings,     \* bound: the assets a repeated initialize names
  MintAmounts,     \* bound: amounts the admin mints
  DonationAmounts, \* bound: USDC sent straight to the pool
  MaxShares        \* bound on the shares of one holder and on the supply

ASSUME LpAssumption ==
  /\ Pool \in Accounts /\ Pool \notin Users
  /\ Decimals \in Nat \ {0}
  /\ DepositAmounts \subseteq Nat
  /\ WithdrawAmounts \subseteq Nat
  /\ TransferAmounts \subseteq Nat /\ LpApproveAmounts \subseteq Int
  /\ MintAmounts \subseteq Nat
  /\ DonationAmounts \subseteq Nat
  /\ MaxShares \in Nat

VARIABLES
  shares,       \* raw shares of each holder
  supply,       \* total raw shares
  index,        \* the rebase index
  borrowed,     \* USDC lent to BNPL Core
  lpAllowance,  \* allowance(from, spender), in USDC
  asset,        \* the underlying token's address
  reset         \* whether initialize has been called again

poolVars == <<supply, index, borrowed, asset, reset>>
lpVars == <<shares, supply, index, borrowed, lpAllowance, asset, reset>>

Usdc == "USDC"

LpTypeOK ==
  /\ shares \in [Accounts -> Nat]
  /\ supply \in Nat
  /\ index \in Nat \ {0}
  /\ borrowed \in Nat
  /\ lpAllowance \in [Pairs -> Int]
  /\ asset \in {Usdc} \cup Underlyings
  /\ reset \in BOOLEAN

LpInit ==
  /\ shares = [a \in Accounts |-> 0]
  /\ supply = 0
  /\ index = Decimals
  /\ borrowed = 0
  /\ lpAllowance = [p \in Pairs |-> 0]
  /\ asset = Usdc
  /\ reset = FALSE

-----------------------------------------------------------------------------
SharesFor(amount, idx) == (amount * Decimals) \div idx
ValueOf(sh, idx) == (sh * idx) \div Decimals

AmountToShares(amount) == SharesFor(amount, index)
Balance(user) == ValueOf(shares[user], index)
Available(user, locked) ==
  IF Balance(user) > locked THEN Balance(user) - locked ELSE 0

(* update_index, as the index it leaves: the assets per share when they    *)
(* exceed what the shares are worth at the old index, else the old index.  *)
IndexFor_BothWays(assets, sup, idx) ==              \* mutant
  IF sup > 0 THEN (assets * Decimals) \div sup ELSE idx

IndexFor(assets, sup, idx) ==
  IF sup > 0 /\ assets > ValueOf(sup, idx)
  THEN (assets * Decimals) \div sup
  ELSE idx

Assets == usdc[Pool] + borrowed

(* bound: calls that count or move the underlying asset are modelled while *)
(* it is the USDC token, not after initialize has named another contract.  *)
OnUsdc == asset = Usdc

UpdateIndex ==
  /\ OnUsdc
  /\ index' = IndexFor(Assets, supply, index)
  /\ UNCHANGED <<shares, supply, borrowed, lpAllowance, asset, reset, usdcVars>>

-----------------------------------------------------------------------------
(* Shares leave a holder and the supply.  Both subtractions are on u128    *)
(* with overflow checks, so a supply too small for them is a panic too.    *)
CanBurnShares(from, sh) == sh <= shares[from] /\ sh <= supply
BurnShares(from, sh) ==
  /\ shares' = [shares EXCEPT ![from] = @ - sh]
  /\ supply' = supply - sh

MintShares(to, sh) ==
  /\ shares[to] + sh <= MaxShares /\ supply + sh <= MaxShares
  /\ shares' = [shares EXCEPT ![to] = @ + sh]
  /\ supply' = supply + sh

Deposit_StaleIndex(from, amount) ==                 \* mutant
  /\ CanMove(usdc, from, amount)
  /\ usdc' = Moved(usdc, from, Pool, amount)
  /\ MintShares(from, AmountToShares(amount))
  /\ UNCHANGED <<index, borrowed, lpAllowance, asset, reset, now, usdcAllowance, mintVars>>

Deposit_IndexAfterTransfer(from, amount) ==         \* mutant
  /\ CanMove(usdc, from, amount)
  /\ usdc' = Moved(usdc, from, Pool, amount)
  /\ index' = IndexFor(usdc'[Pool] + borrowed, supply, index)
  /\ MintShares(from, SharesFor(amount, index'))
  /\ UNCHANGED <<borrowed, lpAllowance, asset, reset, now, usdcAllowance, mintVars>>

(* deposit: the index is brought up to date first, then the USDC comes in. *)
Deposit(from, amount) ==
  LET idx == IndexFor(Assets, supply, index)
  IN  /\ OnUsdc
      /\ CanMove(usdc, from, amount)
      /\ index' = idx
      /\ usdc' = Moved(usdc, from, Pool, amount)
      /\ MintShares(from, SharesFor(amount, idx))
      /\ UNCHANGED <<borrowed, lpAllowance, asset, reset, now, usdcAllowance, mintVars>>

(* withdraw: the index is used as it stands.                               *)
Withdraw(from, amount, locked) ==
  /\ amount <= Available(from, locked)
  /\ CanBurnShares(from, AmountToShares(amount))
  /\ OnUsdc
  /\ CanMove(usdc, Pool, amount)
  /\ BurnShares(from, AmountToShares(amount))
  /\ usdc' = Moved(usdc, Pool, from, amount)
  /\ UNCHANGED <<index, borrowed, lpAllowance, asset, reset, now, usdcAllowance, mintVars>>

(* mint: shares with no USDC behind them, by the admin.                    *)
LpMint(to, amount) ==
  /\ MintShares(to, AmountToShares(amount))
  /\ UNCHANGED <<index, borrowed, lpAllowance, asset, reset, usdcVars>>

(* do_transfer, which like the USDC token reads both holders' shares       *)
(* before it writes either.                                                *)
DoTransfer(from, to, amount, locked) ==
  LET sh == AmountToShares(amount)
  IN  /\ amount <= Available(from, locked)
      /\ sh <= shares[from]
      /\ shares[to] + sh <= MaxShares
      /\ shares' = Moved(shares, from, to, sh)

LpTransfer(from, to, amount, locked) ==
  /\ DoTransfer(from, to, amount, locked)
  /\ UNCHANGED <<poolVars, lpAllowance, usdcVars>>

LpTransferFrom(spender, from, to, amount, locked) ==
  /\ CanSpend(lpAllowance, from, spender, amount)
  /\ lpAllowance' = Spent(lpAllowance, from, spender, amount)
  /\ DoTransfer(from, to, amount, locked)
  /\ UNCHANGED <<poolVars, usdcVars>>

DoBurn_SupplyKept(from, amount, locked) ==          \* mutant
  /\ amount <= Available(from, locked)
  /\ CanBurnShares(from, AmountToShares(amount))
  /\ shares' = [shares EXCEPT ![from] = @ - AmountToShares(amount)]
  /\ UNCHANGED supply

DoBurn(from, amount, locked) ==
  /\ amount <= Available(from, locked)
  /\ CanBurnShares(from, AmountToShares(amount))
  /\ BurnShares(from, AmountToShares(amount))

LpBurn(from, amount, locked) ==
  /\ DoBurn(from, amount, locked)
  /\ UNCHANGED <<index, borrowed, lpAllowance, asset, reset, usdcVars>>

LpBurnFrom(spender, from, amount, locked) ==
  /\ CanSpend(lpAllowance, from, spender, amount)
  /\ lpAllowance' = Spent(lpAllowance, from, spender, amount)
  /\ DoBurn(from, amount, locked)
  /\ UNCHANGED <<index, borrowed, asset, reset, usdcVars>>

LpApprove(from, spender, amount) ==
  /\ lpAllowance' = [lpAllowance EXCEPT ![<<from, spender>>] = amount]
  /\ UNCHANGED <<shares, poolVars, usdcVars>>

(* initialize: anybody who signs as the admin it names, at any time.  The  *)
(* usdc and core contracts refuse a second call, this one starts afresh:   *)
(* every holder's shares are gone, and the USDC stays.  bnpl_core is kept. *)
LpInitialize(underlying) ==
  /\ shares' = [a \in Accounts |-> 0]
  /\ supply' = 0
  /\ index' = Decimals
  /\ borrowed' = 0
  /\ lpAllowance' = [p \in Pairs |-> 0]
  /\ asset' = underlying
  /\ reset' = TRUE
  /\ UNCHANGED usdcVars

(* USDC sent to the pool's address by a plain transfer: the yield that     *)
(* update_index later finds.                                               *)
Donate(from, amount) ==
  /\ UsdcTransfer(from, Pool, amount)
  /\ UNCHANGED lpVars

-----------------------------------------------------------------------------
(* Every call a user, the admin or anybody can make to the pool, when      *)
(* BNPL Core answers locked[u] for each holder u.                          *)
LpCall(locked) ==
  \/ UpdateIndex
  \/ \E u \in Users, a \in DepositAmounts : Deposit(u, a)
  \/ \E u \in Users, a \in WithdrawAmounts : Withdraw(u, a, locked[u])
  \/ \E u \in Users, a \in MintAmounts : LpMint(u, a)
  \/ \E u \in Users, a \in DonationAmounts : Donate(u, a)
  \/ \E u \in Users, a \in TransferAmounts : LpBurn(u, a, locked[u])
  \/ \E u, to \in Users, a \in TransferAmounts :
        LpTransfer(u, to, a, locked[u]) \/ LpBurnFrom(to, u, a, locked[u])
  \/ \E u, to \in Users, a \in LpApproveAmounts : LpApprove(u, to, a)
  \/ \E spender, u, to \in Users, a \in TransferAmounts :
        LpTransferFrom(spender, u, to, a, locked[u])
  \/ \E a \in Underlyings : LpInitialize(a)

poolOnlyVars == <<lpVars, usdcVars>>
LpNext == LpCall([u \in Users |-> 0])
PoolInit == UsdcInit /\ LpInit
LpSpec == PoolInit /\ [][LpNext]_poolOnlyVars

-----------------------------------------------------------------------------
(* No deposit, withdrawal, burn, donation, update or core's call leaves a  *)
(* share worth less than before (update_index L155-158): what lowers the   *)
(* index is a repeated initialize and nothing else.                        *)
IndexNeverFalls ==
  [][index' >= index \/ \E a \in Underlyings : LpInitialize(a)]_poolOnlyVars

(* docs/contracts/lp-token.md L420: "Index only increases, never           *)
(* decreases".  A repeated initialize sets it back to 1.0 (L121-131).      *)
IndexOnlyIncreases == [][index' >= index]_poolOnlyVars

(* What the pool holds and has lent, less what its shares are worth, in    *)
(* units of 1 / DECIMALS USDC.                                             *)
Surplus == Assets * Decimals - supply * index

(* Rounding down in amount_to_shares costs the pool less than one share    *)
(* per call: apart from the admin's mint, no step either opens or widens a *)
(* gap between assets and shares by the price of a share or more.          *)
RoundingLossBounded ==
  [][ \/ Surplus' >= 0
      \/ Surplus' > Surplus - index'
      \/ supply' > supply /\ usdc' = usdc ]_poolOnlyVars

(* The shares the holders have, beyond the supply the contract counts,     *)
(* change only when a holder transfers to itself, or when a repeated       *)
(* initialize wipes both: mint, burn, deposit, withdraw and transfers      *)
(* between two holders keep the two in step.                               *)
SharesOverSupply == SumFunction(shares) - supply
SharesTrackSupply ==
  [][ \/ SharesOverSupply' = SharesOverSupply
      \/ \E u, s \in Users, a \in TransferAmounts :
           \/ LpTransfer(u, u, a, 0)
           \/ LpTransferFrom(s, u, u, a, 0)
      \/ \E a \in Underlyings : LpInitialize(a) ]_poolOnlyVars

(* Withdrawing never costs a holder more balance than the USDC it gets.    *)
WithdrawalNotOvercharged ==
  [][\A u \in Users :
       supply' < supply /\ usdc'[u] > usdc[u] =>
         Balance(u) - Balance(u)' <= usdc'[u] - usdc[u]]_poolOnlyVars

(* Both: rounding goes neither against the pool nor against the holder.    *)
RoundingBounded == RoundingLossBounded /\ WithdrawalNotOvercharged

(* A depositor who joins other holders takes no part of the yield that     *)
(* arrived before: even after the next update_index its shares are worth   *)
(* no more than what it paid in.  (deposit calls update_index first,       *)
(* L166-167; with no shares outstanding update_index does nothing, and the *)
(* first depositor does receive what the pool holds.)                      *)
NewcomerTakesNoPastYield ==
  [][\A u \in Users :
       supply > 0 /\ shares[u] = 0 /\ shares'[u] > 0 /\ usdc'[u] < usdc[u] =>
         ValueOf(shares'[u], IndexFor(Assets', supply', index'))
           <= usdc[u] - usdc'[u]]_poolOnlyVars

(* docs/contracts/lp-token.md L30: supply is the total shares in           *)
(* circulation.  A transfer of a holder to itself credits the stale        *)
(* balance it read and breaks this (do_transfer L110-116).                 *)
SharesInCirculation == SumFunction(shares) = supply
=============================================================================
