------------------------------ MODULE MCTokens ------------------------------
(* Model values and bounds for checking the two tokens without the core: a *)
(* behaviour calls the USDC token's own entry points, from nothing minted  *)
(* on, or those of the pool, whose holders own USDC.                       *)
EXTENDS LpToken, TLC

CONSTANTS u1, u2, pool, MintedUsdc

MCUsers == {u1, u2}
MCAccounts == {u1, u2, pool}
MCEndowment == [a \in MCAccounts |-> IF a = pool THEN 0 ELSE 4]
MCApproveAmounts == {-1, 1}
MCSymmetry == Permutations(MCUsers)

VARIABLE token   \* the token a behaviour calls

tokensVars == <<token, lpVars, usdcVars>>

TokensInit ==
  \/ token = "pool" /\ PoolInit
  \/ /\ token = "usdc" /\ LpInit
     /\ now = 0 /\ usdc = [a \in Accounts |-> 0] /\ usdcSupply = 0
     /\ usdcAllowance = [p \in Pairs |-> 0]
     /\ lastMint = [u \in Users |-> 0] /\ dailyMinted = [u \in Users |-> 0]
     /\ mintedOn = [p \in Users \X LedgerDays |-> 0]

(* MintedUsdc bounds the supply and the balances; the pool takes no part.  *)
UsdcPart ==
  /\ UsdcNext
  /\ usdcSupply' \in -MintedUsdc .. MintedUsdc
  /\ \A u \in Users :
       /\ usdc'[u] <= MintedUsdc \/ usdc'[u] = usdc[u] \/ usdcSupply' # usdcSupply
       /\ usdcAllowance'[<<u, Pool>>] = 0
  /\ usdc'[Pool] = 0
  /\ UNCHANGED lpVars

TokensNext ==
  /\ \/ token = "usdc" /\ UsdcPart
     \/ token = "pool" /\ LpNext
  /\ UNCHANGED token
TokensSpec == TokensInit /\ [][TokensNext]_tokensVars
=============================================================================
