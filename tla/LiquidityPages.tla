--------------------------- MODULE LiquidityPages ---------------------------
(***************************************************************************)
(* The lending section and the faucet: the pages on which a user mints     *)
(* test money, approves the pool for it, deposits and withdraws.  What     *)
(* they offer is decided by values read through caches: an allowance and   *)
(* a day's mint total are kept for half a minute, a balance until it is    *)
(* fetched again.  An approval drops the cached allowance and a mint the   *)
(* cached total, but a deposit, which uses an allowance up, drops neither. *)
(*                                                                         *)
(* The lending section checks the allowance again half a second after      *)
(* each rendering, for its effect depends on a function that every         *)
(* rendering makes anew.  The contracts' side is that of modules UsdcToken *)
(* and LpToken, reduced to what one user and the pool see.                 *)
(***************************************************************************)
EXTENDS Integers, FiniteSets

CONSTANTS
  Wealth,       \* bound: USDC of the user, in wallet and pool together
  DailyLimit,   \* the faucet's daily limit
  AskAmounts,   \* bound: amounts the faucet is asked for
  MaxDay,       \* bound: days of the ledger
  MaxChecks     \* bound: allowance checks under way at the same time

ASSUME LiquidityAssumption ==
  /\ Wealth \in Nat /\ AskAmounts \subseteq 1 .. Wealth
  /\ DailyLimit \in Nat /\ MaxDay \in Nat /\ MaxChecks \in Nat \ {0}

VARIABLES
  cash, invested,     \* USDC of the user and its balance in the pool
  poolAllowance,      \* what the pool may take
  day, mintedToday,
  page,               \* the page that is open
  typed, approved,    \* lending section: depositAmount, isApproved
  checks, checking,   \* checks under way, isCheckingApproval
  working,            \* step of handleApprove or handleDeposit
  asking,             \* faucet: amount
  shownMinted,        \* faucet: dailyMinted
  knownAllowance,     \* fetchQuery's cache of the allowance
  knownMinted         \* fetchQuery's cache of the day's total

ledger == <<cash, invested, poolAllowance, day, mintedToday>>
lending == <<typed, approved, checks, checking, working>>
faucet == <<asking, shownMinted>>
caches == <<knownAllowance, knownMinted>>
liquidityVars == <<ledger, page, lending, faucet, caches>>

Stale == -1
Amounts == 1 .. Wealth

LiquidityTypeOK ==
  /\ cash \in 0 .. Wealth /\ invested \in 0 .. Wealth /\ poolAllowance \in 0 .. Wealth
  /\ mintedToday \in 0 .. DailyLimit /\ shownMinted \in 0 .. DailyLimit
  /\ checks \subseteq [amount : Amounts, value : {Stale} \cup (0 .. Wealth), cached : BOOLEAN]
  /\ working \in {"none", "approve", "recheck", "deposit"}

LiquidityInit ==
  /\ cash = 0 /\ invested = 0 /\ poolAllowance = 0
  /\ day = 0 /\ mintedToday = 0
  /\ page = "faucet"
  /\ typed = 0 /\ approved = FALSE /\ checks = {} /\ checking = FALSE /\ working = "none"
  /\ asking = 0 /\ shownMinted = 0
  /\ knownAllowance = Stale /\ knownMinted = Stale

-----------------------------------------------------------------------------
(* The contracts: what they accept.                                        *)
CanMint(a) == mintedToday + a <= DailyLimit
CanDeposit(a) == poolAllowance >= a /\ cash >= a

Midnight ==
  /\ day < MaxDay
  /\ day' = day + 1
  /\ mintedToday' = 0
  /\ UNCHANGED <<cash, invested, poolAllowance, page, lending, faucet, caches>>

(* A page that is opened knows nothing but what the caches hold.           *)
Visit(p) ==
  /\ page # p /\ working = "none"
  /\ page' = p
  /\ typed' = 0 /\ approved' = FALSE /\ checks' = {} /\ checking' = FALSE /\ working' = "none"
  /\ asking' = 0 /\ shownMinted' = 0
  /\ UNCHANGED <<ledger, caches>>

-----------------------------------------------------------------------------
(* The deposit form.  Its field is locked while a handler works, and not   *)
(* while a check is under way.                                             *)
Type(a) ==
  /\ page = "lending" /\ working = "none"
  /\ typed' = a
  /\ approved' = (a # 0 /\ approved)
  /\ UNCHANGED <<ledger, page, checks, checking, working, faucet, caches>>

(* The debounced check asks the cache, and the ledger if that is stale.    *)
StartCheck ==
  /\ typed > 0 /\ Cardinality(checks) < MaxChecks
  /\ checks' = checks \cup
       {[amount |-> typed, value |-> knownAllowance, cached |-> knownAllowance # Stale]}
  /\ checking' = TRUE
  /\ UNCHANGED <<ledger, page, typed, approved, working, faucet, caches>>

ReadAllowance(c) ==
  /\ c.value = Stale
  /\ checks' = (checks \ {c}) \cup {[c EXCEPT !.value = poolAllowance]}
  /\ UNCHANGED <<ledger, page, typed, approved, checking, working, faucet, caches>>

(* Its answer is about the amount it was asked for, whatever is typed now. *)
CheckLands(c) ==
  /\ c.value # Stale
  /\ approved' = (c.value >= c.amount)
  /\ knownAllowance' = IF c.cached THEN knownAllowance ELSE c.value
  /\ checks' = checks \ {c}
  /\ checking' = FALSE
  /\ UNCHANGED <<ledger, page, typed, working, faucet, knownMinted>>

(* One button, which approves or deposits; a check under way disables it.  *)
Click ==
  /\ typed > 0 /\ working = "none" /\ ~ checking
  /\ working' = IF approved THEN "deposit" ELSE "approve"
  /\ UNCHANGED <<ledger, page, typed, approved, checks, checking, faucet, caches>>

Approve ==
  /\ working = "approve"
  /\ poolAllowance' = typed
  /\ knownAllowance' = Stale
  /\ working' = "recheck"
  /\ UNCHANGED <<cash, invested, day, mintedToday, page, typed, approved, checks, checking,
                 faucet, knownMinted>>

(* handleApprove looks again, and may be given the answer of a request     *)
(* that was under way before it approved.                                  *)
Answers ==
  {IF knownAllowance = Stale THEN poolAllowance ELSE knownAllowance}
    \cup {c.value : c \in {d \in checks : ~ d.cached /\ d.value # Stale}}

Recheck ==
  /\ working = "recheck"
  /\ \E v \in Answers :
       /\ approved' = (v >= typed)
       /\ knownAllowance' = v
  /\ working' = "none"
  /\ UNCHANGED <<ledger, page, typed, checks, checking, faucet, knownMinted>>

(* The pool takes the deposit, or refuses it and the amount stays.  The    *)
(* mutation drops the balances it knows, and not the allowance.            *)
DepositMutation(a) ==
  cash' = cash - a /\ invested' = invested + a /\ poolAllowance' = poolAllowance - a

Deposit ==
  /\ working = "deposit"
  /\ working' = "none"
  /\ IF CanDeposit(typed)
     THEN DepositMutation(typed) /\ typed' = 0 /\ approved' = FALSE
     ELSE UNCHANGED <<cash, invested, poolAllowance, typed, approved>>
  /\ UNCHANGED <<day, mintedToday, page, checks, checking, faucet, caches>>

(* The user refuses to sign.                                               *)
SignatureRefused ==
  /\ working \in {"approve", "deposit"}
  /\ working' = "none"
  /\ UNCHANGED <<ledger, page, typed, approved, checks, checking, faucet, caches>>

AllowanceExpires_Never == FALSE /\ UNCHANGED liquidityVars  \* mutant
AllowanceExpires ==
  /\ knownAllowance # Stale
  /\ knownAllowance' = Stale
  /\ UNCHANGED <<ledger, page, lending, faucet, knownMinted>>

(* The withdrawal form sends what the shown balance covers.  What of it is *)
(* locked the hook leaves out (lockedBalance is null), and the pool        *)
(* refuses it: see LpToken.                                                *)
CanWithdraw(a) == a <= invested
WithdrawMutation(a) == cash' = cash + a /\ invested' = invested - a

Withdraw(a) ==
  /\ page = "lending" /\ working = "none"
  /\ CanWithdraw(a) /\ WithdrawMutation(a)
  /\ UNCHANGED <<poolAllowance, day, mintedToday, page, lending, faucet, caches>>

-----------------------------------------------------------------------------
(* The faucet: handleRefresh, handleMint.                                  *)
Ask(a) ==
  /\ page = "faucet"
  /\ asking' = a
  /\ UNCHANGED <<ledger, page, lending, shownMinted, caches>>

RefreshMinted ==
  /\ page = "faucet"
  /\ shownMinted' = IF knownMinted = Stale THEN mintedToday ELSE knownMinted
  /\ knownMinted' = shownMinted'
  /\ UNCHANGED <<ledger, page, lending, asking, knownAllowance>>

Remaining == IF shownMinted < DailyLimit THEN DailyLimit - shownMinted ELSE 0

(* The mutation drops the day's total it knows.                            *)
MintMutation(a) ==
  cash' = cash + a /\ mintedToday' = mintedToday + a /\ knownMinted' = Stale

Mint ==
  /\ asking > 0 /\ asking <= Remaining
  /\ cash + invested + asking <= Wealth
  /\ IF CanMint(asking)
     THEN MintMutation(asking) /\ asking' = 0
     ELSE UNCHANGED <<cash, mintedToday, asking, knownMinted>>
  /\ UNCHANGED <<invested, poolAllowance, day, page, lending, shownMinted, knownAllowance>>

MintedExpires ==
  /\ knownMinted # Stale
  /\ knownMinted' = Stale
  /\ UNCHANGED <<ledger, page, lending, faucet, knownAllowance>>

-----------------------------------------------------------------------------
LendingStep ==
  \/ \E a \in {0} \cup Amounts : Type(a)
  \/ StartCheck
  \/ \E c \in checks : ReadAllowance(c) \/ CheckLands(c)
  \/ Click \/ Approve \/ Recheck \/ Deposit \/ SignatureRefused
  \/ \E a \in Amounts : Withdraw(a)
FaucetStep == (\E a \in {0} \cup AskAmounts : Ask(a)) \/ RefreshMinted \/ Mint

LiquidityNext ==
  \/ Midnight \/ AllowanceExpires \/ MintedExpires
  \/ \E p \in {"lending", "faucet"} : Visit(p)
  \/ LendingStep \/ FaucetStep

(* The page checks by itself and the caches expire; the user presses each  *)
(* button that stays or keeps coming back, refreshes the faucet, and does  *)
(* not refuse to sign for ever.                                            *)
LiquidityFairness ==
  /\ WF_liquidityVars(StartCheck)
  /\ WF_liquidityVars(\E c \in checks : ReadAllowance(c) \/ CheckLands(c))
  /\ SF_liquidityVars(Click) /\ SF_liquidityVars(Approve) /\ SF_liquidityVars(Deposit)
  /\ WF_liquidityVars(Recheck)
  /\ WF_liquidityVars(AllowanceExpires) /\ WF_liquidityVars(MintedExpires)
  /\ WF_liquidityVars(RefreshMinted) /\ SF_liquidityVars(Mint)

LiquiditySpec == LiquidityInit /\ [][LiquidityNext]_liquidityVars
FairLiquiditySpec == LiquiditySpec /\ LiquidityFairness

-----------------------------------------------------------------------------
(* A user who leaves an amount in the deposit form and keeps pressing its  *)
(* button deposits it, whatever the cache said of an allowance that an     *)
(* earlier deposit used up, and however late a check's answer lands        *)
(* (lending-section.tsx L53-129).                                          *)
DepositServed == \A a \in Amounts : typed = a ~> typed # a \/ cash < a

(* A user who keeps asking the faucet for what the contract would still    *)
(* mint today gets it, on the next day too (faucet/page.tsx L115-210).     *)
MintServed ==
  \A a \in AskAmounts :
    asking = a ~> asking # a \/ ~ CanMint(a) \/ cash + invested + a > Wealth

(* Both: neither page stays behind the chain for good.                     *)
UserServed == DepositServed /\ MintServed
=============================================================================
