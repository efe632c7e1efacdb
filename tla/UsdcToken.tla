------------------------------ MODULE UsdcToken ------------------------------
(***************************************************************************)
(* contracts/usdc_token: the test-net USDC token.  Anyone mints to itself, *)
(* up to a limit per calendar day of the ledger; transfers, burns and      *)
(* allowances follow the Soroban token interface.                          *)
(*                                                                         *)
(* A call that panics changes nothing, so each entry point is an action    *)
(* whose guard is the conjunction of the source's panics.  Moved and Spent *)
(* are the entry points' effects as functions of the balances and of the   *)
(* allowances: the contracts that call the token several times in one      *)
(* transaction compose them.                                               *)
(***************************************************************************)
EXTENDS Terms, Functions, FiniteSets

CONSTANTS
  Users,          \* addresses that sign transactions
  Accounts,       \* every address that can hold a balance
  MintLimit,      \* DataKey::MintLimit, per address and day
  Timestamps,     \* bound: the ledger times a run visits
  UsdcAmounts,    \* bound: amounts users mint, burn and transfer
  ApproveAmounts, \* bound: amounts users approve, which may be negative
  Endowment,      \* USDC each account has minted before the run starts
  MaxUsdcSupply   \* bound on the total supply, on its shortfall, on any balance

ASSUME UsdcAssumption ==
  /\ Users \subseteq Accounts /\ IsFiniteSet(Accounts)
  /\ MintLimit \in Nat
  /\ Timestamps \subseteq Nat /\ 0 \in Timestamps
  /\ UsdcAmounts \subseteq Nat /\ ApproveAmounts \subseteq Int
  /\ Endowment \in [Accounts -> Nat]
  /\ MaxUsdcSupply \in Nat

VARIABLES
  now,            \* the ledger timestamp
  usdc,           \* Balance(address)
  usdcAllowance,  \* Allowance(owner, spender), on pairs
  usdcSupply,     \* TotalSupply
  lastMint,       \* LastMint(address), a day number
  dailyMinted,    \* DailyMinted(address)
  mintedOn        \* the amounts of the mint events, per address and day

mintVars == <<usdcSupply, lastMint, dailyMinted, mintedOn>>
usdcVars == <<now, usdc, usdcAllowance, usdcSupply, lastMint, dailyMinted, mintedOn>>

Pairs == Accounts \X Accounts
LedgerDays == {t \div Day : t \in Timestamps}

UsdcTypeOK ==
  /\ now \in Nat
  /\ usdc \in [Accounts -> Nat]
  /\ usdcAllowance \in [Pairs -> Int]
  /\ usdcSupply \in Int
  /\ lastMint \in [Users -> Nat]
  /\ dailyMinted \in [Users -> Nat]
  /\ mintedOn \in [Users \X LedgerDays -> Nat]

UsdcInit ==
  /\ now = 0
  /\ usdc = Endowment
  /\ usdcAllowance = [p \in Pairs |-> 0]
  /\ usdcSupply = SumFunction(Endowment)
  /\ lastMint = [u \in Users |-> 0]
  /\ dailyMinted = [u \in Users |-> 0]
  /\ mintedOn = [p \in Users \X LedgerDays |-> 0]

-----------------------------------------------------------------------------
(* transfer reads both balances before it writes either, so a transfer of  *)
(* an account to itself leaves it with the larger balance.                 *)
CanMove(b, from, amount) == amount > 0 /\ b[from] >= amount
Moved(b, from, to, amount) ==
  [[b EXCEPT ![from] = @ - amount] EXCEPT ![to] = b[to] + amount]

(* The allowance checks and updates of transfer_from and burn_from.        *)
CanSpend_Strict(al, owner, spender, amount) ==     \* mutant
  al[<<owner, spender>>] > amount
CanSpend(al, owner, spender, amount) == al[<<owner, spender>>] >= amount
Spent(al, owner, spender, amount) == [al EXCEPT ![<<owner, spender>>] = @ - amount]

(* What mint has already counted today: nothing once the day has changed.  *)
Today == now \div Day
MintedToday_ResetSameDay(to) ==                     \* mutant
  IF lastMint[to] <= Today THEN 0 ELSE dailyMinted[to]
MintedToday(to) == IF lastMint[to] < Today THEN 0 ELSE dailyMinted[to]

UsdcMint(to, amount) ==
  /\ amount > 0
  /\ MintedToday(to) + amount <= MintLimit
  /\ usdcSupply + amount <= MaxUsdcSupply
  /\ lastMint' = [lastMint EXCEPT ![to] = Today]
  /\ dailyMinted' = [dailyMinted EXCEPT ![to] = MintedToday(to) + amount]
  /\ mintedOn' = [mintedOn EXCEPT ![<<to, Today>>] = @ + amount]
  /\ usdc' = [usdc EXCEPT ![to] = @ + amount]
  /\ usdcSupply' = usdcSupply + amount
  /\ UNCHANGED <<now, usdcAllowance>>

(* TotalSupply is a signed i128 and no panic guards the subtraction: after *)
(* an account has raised its balance by a transfer to itself, burning can  *)
(* take the supply below zero.                                             *)
UsdcBurn(from, amount) ==
  /\ CanMove(usdc, from, amount)
  /\ usdc' = [usdc EXCEPT ![from] = @ - amount]
  /\ usdcSupply - amount >= -MaxUsdcSupply
  /\ usdcSupply' = usdcSupply - amount
  /\ UNCHANGED <<now, usdcAllowance, lastMint, dailyMinted, mintedOn>>

UsdcBurnFrom_SupplyKept(spender, from, amount) ==   \* mutant
  /\ CanSpend(usdcAllowance, from, spender, amount)
  /\ CanMove(usdc, from, amount)
  /\ usdc' = [usdc EXCEPT ![from] = @ - amount]
  /\ usdcAllowance' = Spent(usdcAllowance, from, spender, amount)
  /\ UNCHANGED <<now, mintVars>>

UsdcBurnFrom(spender, from, amount) ==
  /\ CanSpend(usdcAllowance, from, spender, amount)
  /\ CanMove(usdc, from, amount)
  /\ usdc' = [usdc EXCEPT ![from] = @ - amount]
  /\ usdcAllowance' = Spent(usdcAllowance, from, spender, amount)
  /\ usdcSupply - amount >= -MaxUsdcSupply
  /\ usdcSupply' = usdcSupply - amount
  /\ UNCHANGED <<now, lastMint, dailyMinted, mintedOn>>

UsdcTransfer(from, to, amount) ==
  /\ CanMove(usdc, from, amount)
  /\ usdc[to] + amount <= MaxUsdcSupply
  /\ usdc' = Moved(usdc, from, to, amount)
  /\ UNCHANGED <<now, usdcAllowance, mintVars>>

UsdcTransferFrom(spender, from, to, amount) ==
  /\ CanSpend(usdcAllowance, from, spender, amount)
  /\ CanMove(usdc, from, amount)
  /\ usdc[to] + amount <= MaxUsdcSupply
  /\ usdc' = Moved(usdc, from, to, amount)
  /\ usdcAllowance' = Spent(usdcAllowance, from, spender, amount)
  /\ UNCHANGED <<now, mintVars>>

(* approve overwrites, and takes any i128: unlike the amount of a transfer *)
(* its sign is not looked at.  The expiration ledger is stored nowhere.    *)
UsdcApprove(owner, spender, amount) ==
  /\ usdcAllowance' = [usdcAllowance EXCEPT ![<<owner, spender>>] = amount]
  /\ UNCHANGED <<now, usdc, mintVars>>

(* Ledger close: the timestamp moves to a later one.                       *)
LedgerClose ==
  /\ \E t \in Timestamps : t > now /\ now' = t
  /\ UNCHANGED <<usdc, usdcAllowance, mintVars>>

UsdcCall ==
  \/ \E u \in Users, a \in UsdcAmounts : UsdcMint(u, a) \/ UsdcBurn(u, a)
  \/ \E u \in Users, to \in Accounts, a \in UsdcAmounts : UsdcTransfer(u, to, a)
  \/ \E u \in Users, spender \in Accounts, a \in ApproveAmounts :
        UsdcApprove(u, spender, a)
  \/ \E spender, from \in Users, a \in UsdcAmounts : UsdcBurnFrom(spender, from, a)
  \/ \E spender, from \in Users, to \in Accounts, a \in UsdcAmounts :
        UsdcTransferFrom(spender, from, to, a)

UsdcNext == UsdcCall \/ LedgerClose

UsdcSpec == UsdcInit /\ [][UsdcNext]_usdcVars

-----------------------------------------------------------------------------
(* Balances and TotalSupply move together through mint, burn, transfer and *)
(* their allowance variants; only a transfer of an account to itself, which*)
(* credits the balance it read first, drives them apart.                   *)
BalancesOverSupply == SumFunction(usdc) - usdcSupply
BalancesTrackSupply ==
  [][ \/ BalancesOverSupply' = BalancesOverSupply
      \/ \E u, s \in Users, a \in UsdcAmounts :
           UsdcTransfer(u, u, a) \/ UsdcTransferFrom(s, u, u, a) ]_usdcVars

(* Nobody mints more than the limit on one calendar day of the ledger,     *)
(* however the mints are spread around midnight (mint L83-109), and what   *)
(* get_daily_minted reports is what was minted today.                      *)
DailyLimitHolds ==
  /\ \A p \in Users \X LedgerDays : mintedOn[p] <= MintLimit
  /\ \A u \in Users : MintedToday(u) = mintedOn[<<u, Today>>]
=============================================================================
