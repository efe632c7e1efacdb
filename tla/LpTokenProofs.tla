---------------------------- MODULE LpTokenProofs ----------------------------
(* Type correctness of the pool, its index, which falls only when it is    *)
(* initialized again, its shares, which the supply counts, and the         *)
(* rounding of deposits and withdrawals.                                   *)
EXTENDS LpToken, UsdcTokenProofs

LpTypes == UsdcTypeOK /\ LpTypeOK

-----------------------------------------------------------------------------
(* Conversions between USDC and shares give natural numbers.               *)
LEMMA ConversionsNat ==
  ASSUME NEW n \in Nat, NEW idx \in Nat \ {0}
  PROVE  SharesFor(n, idx) \in Nat /\ ValueOf(n, idx) \in Nat
<1>1. n * Decimals \in Nat /\ n * idx \in Nat /\ Decimals \in Nat \ {0}
  BY LpAssumption
<1> QED BY <1>1 DEF SharesFor, ValueOf

(* update_index replaces the index only when the assets exceed the rounded *)
(* value of the shares; then they also reach the exact value, so the       *)
(* quotient, though rounded down, is not below the old index.              *)
LEMMA IndexForGrows ==
  ASSUME NEW assets \in Nat, NEW sup \in Nat, NEW idx \in Nat \ {0}
  PROVE  IndexFor(assets, sup, idx) \in Nat /\ IndexFor(assets, sup, idx) >= idx
<1> DEFINE value == (sup * idx) \div Decimals
<1>1. Decimals \in Nat \ {0}
  BY LpAssumption
<1>2. CASE ~ (sup > 0 /\ assets > value)
  BY <1>2 DEF IndexFor, ValueOf
<1>3. CASE sup > 0 /\ assets > value
  <2>1. sup * idx \in Nat /\ assets * Decimals \in Nat
    BY <1>1
  <2>2. value \in Nat /\ sup * idx < Decimals * value + Decimals
    BY <2>1, <1>1
  <2>3. IndexFor(assets, sup, idx) = (assets * Decimals) \div sup
    BY <1>3 DEF IndexFor, ValueOf
  <2> HIDE DEF value
  <2>4. assets >= value + 1
    BY <1>3, <2>2
  <2>5. assets * Decimals >= (value + 1) * Decimals
    BY <1>1, <2>2, <2>4
  <2>6. assets * Decimals >= sup * idx
    BY <1>1, <2>1, <2>2, <2>5
  <2>7. (assets * Decimals) \div sup \in Nat /\ (assets * Decimals) \div sup >= idx
    BY <1>3, <2>1, <2>6
  <2> QED BY <2>3, <2>7
<1> QED BY <1>2, <1>3

(* What the pool holds and has lent is a natural number.                   *)
LEMMA AssetsNat == LpTypes => Assets \in Nat
BY LpAssumption DEF LpTypes, UsdcTypeOK, LpTypeOK, Assets

-----------------------------------------------------------------------------
(* The call that starts the pool afresh.                                   *)
Restarted == \E a \in Underlyings : LpInitialize(a)

(* Every call to the pool keeps the types and, unless it starts the pool   *)
(* afresh, does not lower the index, whatever the core says is locked.     *)
LEMMA LpCallStep ==
  ASSUME LpTypes, NEW locked, LpCall(locked)
  PROVE  LpTypes' /\ (index' >= index \/ Restarted)
<1> USE LpAssumption, UsdcAssumption
<1>0. /\ index \in Nat \ {0} /\ supply \in Nat /\ borrowed \in Nat
      /\ Users \subseteq Accounts /\ Pool \in Accounts /\ Assets \in Nat
      /\ shares \in [Accounts -> Nat] /\ usdc \in [Accounts -> Nat]
  BY AssetsNat DEF LpTypes, LpTypeOK, UsdcTypeOK
<1>i. IndexFor(Assets, supply, index) \in Nat \ {0}
      /\ IndexFor(Assets, supply, index) >= index
  BY <1>0, IndexForGrows
<1>1. ASSUME UpdateIndex
      PROVE  LpTypes' /\ index' >= index
  BY <1>1, <1>i DEF UpdateIndex, LpTypes, LpTypeOK, UsdcTypeOK, usdcVars
<1>2. ASSUME NEW u \in Users, NEW a \in DepositAmounts, Deposit(u, a)
      PROVE  LpTypes' /\ index' >= index
  <2>1. /\ a \in Nat /\ u \in Accounts /\ usdc[u] >= a
        /\ index' = IndexFor(Assets, supply, index)
        /\ usdc' = Moved(usdc, u, Pool, a)
    BY <1>2, <1>0 DEF Deposit, CanMove
  <2>2. usdc' \in [Accounts -> Nat]
    BY <2>1, <1>0, MovedNat
  <2>3. SharesFor(a, IndexFor(Assets, supply, index)) \in Nat
    BY <2>1, <1>i, ConversionsNat
  <2>4. shares' \in [Accounts -> Nat] /\ supply' \in Nat
    BY <1>2, <2>1, <2>3, <1>0 DEF Deposit, MintShares
  <2> QED BY <1>2, <2>1, <2>2, <2>4, <1>i
        DEF Deposit, LpTypes, LpTypeOK, UsdcTypeOK, mintVars
<1>3. ASSUME NEW u \in Users, NEW a \in WithdrawAmounts, Withdraw(u, a, locked[u])
      PROVE  LpTypes' /\ index' >= index
  <2>1. /\ a \in Nat /\ u \in Accounts /\ usdc[Pool] >= a
        /\ usdc' = Moved(usdc, Pool, u, a)
    BY <1>3, <1>0 DEF Withdraw, CanMove
  <2>2. usdc' \in [Accounts -> Nat]
    BY <2>1, <1>0, MovedNat
  <2>3. AmountToShares(a) \in Nat
    BY <2>1, <1>0, ConversionsNat DEF AmountToShares
  <2>4. shares' \in [Accounts -> Nat] /\ supply' \in Nat
    BY <1>3, <2>1, <2>3, <1>0 DEF Withdraw, CanBurnShares, BurnShares
  <2> QED BY <1>3, <2>2, <2>4, <1>0
        DEF Withdraw, LpTypes, LpTypeOK, UsdcTypeOK, mintVars
<1>4. ASSUME NEW u \in Users, NEW a \in MintAmounts, LpMint(u, a)
      PROVE  LpTypes' /\ index' >= index
  <2>1. a \in Nat /\ u \in Accounts /\ AmountToShares(a) \in Nat
    BY <1>0, ConversionsNat DEF AmountToShares
  <2>2. shares' \in [Accounts -> Nat] /\ supply' \in Nat
    BY <1>4, <2>1, <1>0 DEF LpMint, MintShares
  <2> QED BY <1>4, <2>2, <1>0
        DEF LpMint, LpTypes, LpTypeOK, UsdcTypeOK, usdcVars
<1>5. ASSUME NEW u \in Users, NEW a \in DonationAmounts, Donate(u, a)
      PROVE  LpTypes' /\ index' >= index
  <2>1. a \in Nat /\ u \in Accounts /\ usdc[u] >= a
    BY <1>5, <1>0 DEF Donate, UsdcTransfer, CanMove
  <2>2. usdc' \in [Accounts -> Nat]
    BY <1>5, <2>1, <1>0, MovedNat DEF Donate, UsdcTransfer
  <2> QED BY <1>5, <2>2, <1>0
        DEF Donate, UsdcTransfer, LpTypes, LpTypeOK, UsdcTypeOK, mintVars, lpVars
<1>b. ASSUME NEW u \in Users, NEW a \in TransferAmounts, DoBurn(u, a, locked[u])
      PROVE  shares' \in [Accounts -> Nat] /\ supply' \in Nat
  <2>1. a \in Nat /\ u \in Accounts /\ AmountToShares(a) \in Nat
    BY <1>0, ConversionsNat DEF AmountToShares
  <2> QED BY <1>b, <2>1, <1>0 DEF DoBurn, CanBurnShares, BurnShares
<1>t. ASSUME NEW u \in Users, NEW to \in Users, NEW a \in TransferAmounts,
             DoTransfer(u, to, a, locked[u])
      PROVE  shares' \in [Accounts -> Nat]
  <2>1. /\ AmountToShares(a) \in Nat /\ u \in Accounts /\ to \in Accounts
        /\ shares[u] >= AmountToShares(a)
        /\ shares' = Moved(shares, u, to, AmountToShares(a))
    BY <1>t, <1>0, ConversionsNat DEF AmountToShares, DoTransfer
  <2> QED BY <2>1, <1>0, MovedNat
<1>s. ASSUME NEW s \in Users, NEW u \in Users, NEW a \in TransferAmounts,
             CanSpend(lpAllowance, u, s, a)
      PROVE  Spent(lpAllowance, u, s, a) \in [Pairs -> Int]
  <2>1. a \in Nat /\ <<u, s>> \in Pairs /\ lpAllowance[<<u, s>>] >= a
    BY <1>s, <1>0 DEF CanSpend, Pairs
  <2> QED BY <2>1 DEF Spent, LpTypes, LpTypeOK
<1>6. ASSUME NEW u \in Users, NEW a \in TransferAmounts, LpBurn(u, a, locked[u])
      PROVE  LpTypes' /\ index' >= index
  BY <1>6, <1>b, <1>0 DEF LpBurn, LpTypes, LpTypeOK, UsdcTypeOK, usdcVars
<1>7. ASSUME NEW u \in Users, NEW to \in Users, NEW a \in TransferAmounts,
             LpTransfer(u, to, a, locked[u])
      PROVE  LpTypes' /\ index' >= index
  BY <1>7, <1>t, <1>0
  DEF LpTransfer, LpTypes, LpTypeOK, UsdcTypeOK, usdcVars, poolVars
<1>8. ASSUME NEW u \in Users, NEW to \in Users, NEW a \in LpApproveAmounts,
             LpApprove(u, to, a)
      PROVE  LpTypes' /\ index' >= index
  <2>1. a \in Int /\ <<u, to>> \in Pairs
    BY <1>0 DEF Pairs
  <2> QED BY <1>8, <2>1, <1>0
        DEF LpApprove, LpTypes, LpTypeOK, UsdcTypeOK, usdcVars, poolVars
<1>9. ASSUME NEW u \in Users, NEW to \in Users, NEW a \in TransferAmounts,
             LpBurnFrom(to, u, a, locked[u])
      PROVE  LpTypes' /\ index' >= index
  BY <1>9, <1>b, <1>s, <1>0
  DEF LpBurnFrom, LpTypes, LpTypeOK, UsdcTypeOK, usdcVars
<1>10. ASSUME NEW s \in Users, NEW u \in Users, NEW to \in Users,
              NEW a \in TransferAmounts, LpTransferFrom(s, u, to, a, locked[u])
       PROVE  LpTypes' /\ index' >= index
  BY <1>10, <1>t, <1>s, <1>0
  DEF LpTransferFrom, LpTypes, LpTypeOK, UsdcTypeOK, usdcVars, poolVars
<1>11. ASSUME NEW a \in Underlyings, LpInitialize(a)
       PROVE  LpTypes' /\ Restarted
  BY <1>11 DEF LpInitialize, LpTypes, LpTypeOK, UsdcTypeOK, usdcVars, Restarted
<1> QED BY <1>1, <1>2, <1>3, <1>4, <1>5, <1>6, <1>7, <1>8, <1>9, <1>10, <1>11 DEF LpCall

(* The empty pool is well typed.                                           *)
LEMMA LpInitTypes == LpInit => LpTypeOK
<1> SUFFICES ASSUME LpInit PROVE LpTypeOK
  OBVIOUS
<1>1. asset \in {Usdc} \cup Underlyings /\ reset \in BOOLEAN
  BY DEF LpInit
<1>2. shares \in [Accounts -> Nat] /\ lpAllowance \in [Pairs -> Int]
  BY DEF LpInit
<1>3. supply \in Nat /\ index \in Nat \ {0} /\ borrowed \in Nat
  BY LpAssumption DEF LpInit
<1> QED BY <1>1, <1>2, <1>3 DEF LpTypeOK

(* Type correctness of the pool with its USDC token.                       *)
THEOREM LpTypeCorrect == LpSpec => [](UsdcTypeOK /\ LpTypeOK)
<1>1. PoolInit => LpTypes
  BY UsdcInitTypes, LpInitTypes DEF PoolInit, LpTypes
<1>2. LpTypes /\ [LpNext]_poolOnlyVars => LpTypes'
  <2>1. LpTypes /\ UNCHANGED poolOnlyVars => LpTypes'
    BY DEF LpTypes, LpTypeOK, UsdcTypeOK, poolOnlyVars, lpVars, usdcVars
  <2> QED BY <2>1, LpCallStep DEF LpNext
<1> QED BY <1>1, <1>2, PTL DEF LpSpec, LpTypes

(* Nothing but a repeated initialize lowers the index, for every supply,   *)
(* amount and order of calls.                                              *)
THEOREM IndexMonotone == LpSpec => IndexNeverFalls
<1>1. LpTypes /\ [LpNext]_poolOnlyVars =>
        [index' >= index \/ \E a \in Underlyings : LpInitialize(a)]_poolOnlyVars
  BY LpCallStep DEF LpNext, Restarted
<1>2. LpSpec => []LpTypes
  BY LpTypeCorrect DEF LpTypes
<1> QED BY <1>1, <1>2, PTL DEF LpSpec, IndexNeverFalls

-----------------------------------------------------------------------------
(* What rounding can do.                                                   *)

(* amount_to_shares rounds down, by less than the price of a share.        *)
LEMMA SharesRoundDown ==
  ASSUME NEW n \in Nat, NEW idx \in Nat \ {0}
  PROVE  /\ SharesFor(n, idx) \in Nat
         /\ SharesFor(n, idx) * idx <= n * Decimals
         /\ n * Decimals < SharesFor(n, idx) * idx + idx
<1> DEFINE q == (n * Decimals) \div idx
<1>1. n * Decimals \in Nat
  BY LpAssumption
<1>2. q \in Nat /\ idx * q <= n * Decimals /\ n * Decimals < idx * q + idx
  BY <1>1
<1> HIDE DEF q
<1>3. idx * q = q * idx
  BY <1>2
<1>4. q * idx <= n * Decimals /\ n * Decimals < q * idx + idx
  BY <1>2, <1>3
<1> QED BY <1>2, <1>4 DEF SharesFor, q

(* shares_to_amount rounds down too, by less than a unit.                  *)
LEMMA ValueRoundsDown ==
  ASSUME NEW sh \in Nat, NEW idx \in Nat \ {0}
  PROVE  /\ ValueOf(sh, idx) \in Nat
         /\ ValueOf(sh, idx) * Decimals <= sh * idx
         /\ sh * idx < ValueOf(sh, idx) * Decimals + Decimals
<1> DEFINE q == (sh * idx) \div Decimals
<1>1. sh * idx \in Nat /\ Decimals \in Nat \ {0}
  BY LpAssumption
<1>2. q \in Nat /\ Decimals * q <= sh * idx /\ sh * idx < Decimals * q + Decimals
  BY <1>1
<1> HIDE DEF q
<1>3. Decimals * q = q * Decimals
  BY <1>1, <1>2
<1>4. q * Decimals <= sh * idx /\ sh * idx < q * Decimals + Decimals
  BY <1>2, <1>3
<1> QED BY <1>2, <1>4 DEF ValueOf, q

(* An index that update_index has moved is covered by the assets.          *)
LEMMA IndexForCovered ==
  ASSUME NEW assets \in Nat, NEW sup \in Nat, NEW idx \in Nat \ {0}
  PROVE  \/ IndexFor(assets, sup, idx) = idx
         \/ sup * IndexFor(assets, sup, idx) <= assets * Decimals
<1>1. CASE sup > 0 /\ assets > ValueOf(sup, idx)
  <2> DEFINE q == (assets * Decimals) \div sup
  <2>1. assets * Decimals \in Nat
    BY LpAssumption
  <2>2. sup * q <= assets * Decimals
    BY <1>1, <2>1
  <2> QED BY <1>1, <2>2 DEF IndexFor
<1>2. CASE ~ (sup > 0 /\ assets > ValueOf(sup, idx))
  BY <1>2 DEF IndexFor
<1> QED BY <1>1, <1>2

(* A holder that leaves with amount units gives up a balance of at most    *)
(* amount: the shares taken for it are worth no more.                      *)
LEMMA SharesTakenWorthAtMost ==
  ASSUME NEW s \in Nat, NEW n \in Nat, NEW idx \in Nat \ {0},
         NEW sh \in Nat, sh = SharesFor(n, idx), sh <= s
  PROVE  ValueOf(s, idx) - ValueOf(s - sh, idx) <= n
<1> DEFINE v == ValueOf(s, idx)
           w == ValueOf(s - sh, idx)
           D == Decimals
<1>1. D \in Nat \ {0} /\ s - sh \in Nat
  BY LpAssumption
<1>2. sh * idx <= n * D
  BY SharesRoundDown
<1>3. v \in Nat /\ v * D <= s * idx
  BY ValueRoundsDown
<1>4. w \in Nat /\ (s - sh) * idx < w * D + D
  BY <1>1, ValueRoundsDown
<1> HIDE DEF v, w, D
<1>5. (s - sh) * idx = s * idx - sh * idx
  BY <1>1
<1>6. v * D < w * D + D + n * D
  <2>1. s * idx \in Nat /\ sh * idx \in Nat /\ v * D \in Nat /\ w * D \in Nat /\ n * D \in Nat
    BY <1>1, <1>3, <1>4
  <2> QED BY <2>1, <1>1, <1>2, <1>3, <1>4, <1>5
<1>7. v < w + 1 + n
  <2>1. w * D + D + n * D = (w + 1 + n) * D
    BY <1>1, <1>4
  <2>2. v * D < (w + 1 + n) * D
    BY <2>1, <1>6
  <2>3. ASSUME v >= w + 1 + n
        PROVE  FALSE
    <3>1. v * D >= (w + 1 + n) * D
      BY <2>3, <1>1, <1>3, <1>4
    <3> QED BY <3>1, <2>2, <1>1, <1>3, <1>4
  <2> QED BY <2>3, <1>3, <1>4
<1> QED BY <1>3, <1>4, <1>7 DEF v, w

(* Assets, supply and index after a deposit leave no larger gap than       *)
(* before it, and none at all where update_index has moved the index.      *)
LEMMA DepositSurplus ==
  ASSUME NEW assets \in Nat, NEW sup \in Nat, NEW idx \in Nat \ {0},
         NEW idx2 \in Nat \ {0}, idx2 = idx \/ sup * idx2 <= assets * Decimals,
         NEW n \in Nat
  PROVE  LET gap == (assets + n) * Decimals - (sup + SharesFor(n, idx2)) * idx2
         IN  gap >= 0 \/ gap >= assets * Decimals - sup * idx
<1> DEFINE sh == SharesFor(n, idx2)
           D == Decimals
<1>1. D \in Nat \ {0} /\ sh \in Nat /\ sh * idx2 <= n * D
  BY LpAssumption, SharesRoundDown
<1> HIDE DEF sh, D
<1>2. /\ (assets + n) * D = assets * D + n * D
      /\ (sup + sh) * idx2 = sup * idx2 + sh * idx2
  BY <1>1
<1>3. /\ assets * D \in Nat /\ n * D \in Nat /\ sup * idx2 \in Nat /\ sh * idx2 \in Nat
      /\ sup * idx \in Nat
  BY <1>1
<1>4. (assets + n) * D - (sup + sh) * idx2 >= assets * D - sup * idx2
  BY <1>1, <1>2, <1>3
<1>5. CASE idx2 = idx
  <2>1. (assets + n) * D - (sup + sh) * idx2 >= assets * D - sup * idx
    BY <1>4, <1>5
  <2> QED BY <2>1 DEF sh, D
<1>6. CASE sup * idx2 <= assets * Decimals
  <2>1. sup * idx2 <= assets * D
    BY <1>6 DEF D
  <2>2. (assets + n) * D - (sup + sh) * idx2 >= 0
    BY <2>1, <1>1, <1>2, <1>3, <1>4
  <2> QED BY <2>2 DEF sh, D
<1> QED BY <1>5, <1>6

(* The shares a deposit of n units buys are worth no more than n, even     *)
(* after the next update_index.  Rounding the index down makes shares      *)
(* cheap, but it can rise again only when the deposit lost more by         *)
(* rounding than its shares gain.                                          *)
LEMMA DepositWorth ==
  ASSUME NEW A \in Nat, NEW S \in Nat \ {0}, NEW idx \in Nat \ {0},
         NEW n \in Nat, NEW i \in Nat \ {0}, i = IndexFor(A, S, idx),
         NEW sh \in Nat, sh = SharesFor(n, i)
  PROVE  ValueOf(sh, IndexFor(A + n, S + sh, i)) <= n
<1> DEFINE D == Decimals
           j == IndexFor(A + n, S + sh, i)
           v == ValueOf(sh, j)
           T == S + sh
<1>1. D \in Nat \ {0} /\ T \in Nat \ {0} /\ A + n \in Nat
  BY LpAssumption
<1>2. sh * i <= n * D
  BY SharesRoundDown
<1>3. j \in Nat \ {0} /\ j >= i /\ (j = i \/ T * j <= (A + n) * D)
  <2>1. IndexFor(A + n, T, i) \in Nat /\ IndexFor(A + n, T, i) >= i
    <3> HIDE DEF T
    <3> QED BY <1>1, IndexForGrows
  <2>2. IndexFor(A + n, T, i) = i \/ T * IndexFor(A + n, T, i) <= (A + n) * Decimals
    <3> HIDE DEF T
    <3> QED BY <1>1, IndexForCovered
  <2>3. j = IndexFor(A + n, T, i)
    OBVIOUS
  <2> HIDE DEF j, T
  <2> QED BY <2>1, <2>2, <2>3
<1>4. v \in Nat /\ v * D <= sh * j
  BY <1>3, ValueRoundsDown
<1>5. A * D < S * i + S
  <2>1. CASE A > ValueOf(S, idx)
    <3> DEFINE q == (A * Decimals) \div S
    <3>1. A * Decimals \in Nat
      BY LpAssumption
    <3>2. q \in Nat /\ A * Decimals < S * q + S
      BY <3>1
    <3>3. i = q
      BY <2>1 DEF IndexFor
    <3> QED BY <3>2, <3>3
  <2>2. CASE A <= ValueOf(S, idx)
    <3>1. i = idx
      <4>1. ValueOf(S, idx) \in Nat
        BY ValueRoundsDown
      <4> QED BY <4>1, <2>2 DEF IndexFor
    <3>2. ValueOf(S, idx) \in Nat /\ ValueOf(S, idx) * D <= S * idx
      BY ValueRoundsDown
    <3>3. A * D <= ValueOf(S, idx) * D
      BY <2>2, <3>2, <1>1, Scaled
    <3>4. A * D \in Nat /\ S * idx \in Nat /\ ValueOf(S, idx) * D \in Nat
      BY <1>1, <3>2
    <3> HIDE DEF D
    <3> QED BY <3>1, <3>2, <3>3, <3>4
  <2> QED
    <3>1. ValueOf(S, idx) \in Nat
      BY ValueRoundsDown
    <3> QED BY <3>1, <2>1, <2>2
<1>7. CASE j = i
  <2> HIDE DEF D, j, v
  <2>1. v * D <= n * D
    BY <1>1, <1>2, <1>4, <1>7
  <2>2. v <= n
    BY <2>1, <1>1, <1>4, Scaled
  <2> QED BY <2>2 DEF v, j, D
<1>8. CASE j # i
  <2> HIDE DEF D, j, v, T
  <2>0. T * j <= (A + n) * D
    BY <1>3, <1>8
  <2>1. v * T <= sh * (A + n)
    <3>1. (v * D) * T <= (sh * j) * T
      BY <1>1, <1>3, <1>4, Scaled
    <3>2. (T * j) * sh <= ((A + n) * D) * sh
      BY <1>1, <1>3, <2>0, Scaled
    <3>3. (v * T) * D = (v * D) * T /\ (sh * j) * T = (T * j) * sh
      BY <1>1, <1>3, <1>4
    <3>4. ((A + n) * D) * sh = (sh * (A + n)) * D
      BY <1>1
    <3>5. (v * T) * D <= (sh * (A + n)) * D
      BY <3>1, <3>2, <3>3, <3>4, <1>1, <1>3, <1>4
    <3> QED BY <3>5, <1>1, <1>4, Scaled
  <2>2. sh * (i + 1) <= n * D
    <3>1. T * (i + 1) <= T * j
      BY <1>1, <1>3, <1>8
    <3>2. T * (i + 1) = (S * i + S) + sh * (i + 1)
      BY DEF T
    <3>3. (A + n) * D = A * D + n * D
      BY <1>1
    <3>4. /\ T * (i + 1) \in Int /\ T * j \in Int /\ A * D \in Int /\ n * D \in Int
          /\ S * i + S \in Int /\ sh * (i + 1) \in Int
      BY <1>1, <1>3
    <3> QED BY <3>1, <3>2, <3>3, <3>4, <2>0, <1>5
  <2>3. sh * A <= n * S
    <3>1. (A * D) * sh <= (S * i + S) * sh
      BY <1>1, <1>5, Scaled
    <3>2. (sh * (i + 1)) * S <= (n * D) * S
      BY <1>1, <2>2, Scaled
    <3>3. (S * i + S) * sh = (sh * (i + 1)) * S
      OBVIOUS
    <3>4. (A * D) * sh = (sh * A) * D /\ (n * D) * S = (n * S) * D
      BY <1>1
    <3>5. (sh * A) * D <= (n * S) * D
      BY <3>1, <3>2, <3>3, <3>4, <1>1
    <3> QED BY <3>5, <1>1, Scaled
  <2>4. v * T <= n * T
    <3>1. sh * (A + n) = sh * A + sh * n /\ n * T = n * S + sh * n
      BY DEF T
    <3>2. /\ sh * A \in Int /\ sh * n \in Int /\ n * S \in Int /\ v * T \in Int
      BY <1>1, <1>4
    <3> QED BY <3>1, <3>2, <2>1, <2>3
  <2>5. v <= n
    BY <2>4, <1>1, <1>4, Scaled
  <2> QED BY <2>5 DEF v, j
<1> QED BY <1>3, <1>7, <1>8

-----------------------------------------------------------------------------
(* What one call to the pool can do to holders and to the pool itself.     *)

(* Rounding loses less than a share, except where the admin mints.         *)
RoundsForPool ==
  \/ Surplus' >= 0
  \/ Surplus' > Surplus - index'
  \/ supply' > supply /\ usdc' = usdc

(* Whoever gives up shares for USDC gives up no more than it gets.         *)
RoundsForHolder ==
  \A u \in Users :
    supply' < supply /\ usdc'[u] > usdc[u] =>
      Balance(u) - Balance(u)' <= usdc'[u] - usdc[u]

(* A newcomer gets no more than it pays for.                               *)
NewcomerPays ==
  \A u \in Users :
    supply > 0 /\ shares[u] = 0 /\ shares'[u] > 0 /\ usdc'[u] < usdc[u] =>
      ValueOf(shares'[u], IndexFor(Assets', supply', index'))
        <= usdc[u] - usdc'[u]

(* A call that moves no USDC and mints no shares satisfies all three.      *)
LEMMA QuietCall ==
  ASSUME LpTypes, usdc' = usdc, borrowed' = borrowed, index' = index,
         supply' \in Nat, supply' <= supply
  PROVE  RoundsForPool /\ RoundsForHolder /\ NewcomerPays
<1>1. /\ Assets \in Nat /\ supply \in Nat /\ index \in Nat \ {0}
      /\ Decimals \in Nat /\ Users \subseteq Accounts
      /\ usdc \in [Accounts -> Nat]
  BY AssetsNat, LpAssumption, UsdcAssumption DEF LpTypes, LpTypeOK, UsdcTypeOK
<1>2. Assets' = Assets
  BY DEF Assets
<1>3. supply' * index <= supply * index
  <2> DEFINE s == supply'
  <2>1. s \in Nat /\ s <= supply
    OBVIOUS
  <2> HIDE DEF s
  <2>2. s * index <= supply * index
    BY <2>1, <1>1
  <2> QED BY <2>2 DEF s
<1>4. Surplus' >= Surplus /\ Surplus \in Int
  <2>1. Surplus' = Assets * Decimals - supply' * index
    BY <1>2 DEF Surplus
  <2>2. Assets * Decimals \in Int /\ supply' * index \in Int /\ supply * index \in Int
    BY <1>1
  <2> QED BY <2>1, <2>2, <1>3 DEF Surplus
<1>5. Surplus' > Surplus - index'
  <2>1. Surplus' \in Int
    BY <1>1, <1>2 DEF Surplus
  <2> QED BY <2>1, <1>1, <1>4
<1>6. \A u \in Users : usdc'[u] = usdc[u] /\ usdc[u] \in Nat
  BY <1>1
<1> QED BY <1>5, <1>6 DEF RoundsForPool, RoundsForHolder, NewcomerPays

(* A deposit pays the pool for its shares, and the depositor gets no more. *)
LEMMA DepositRounds ==
  ASSUME LpTypes, NEW u \in Users, NEW a \in DepositAmounts, Deposit(u, a)
  PROVE  RoundsForPool /\ RoundsForHolder /\ NewcomerPays
<1> DEFINE idx == IndexFor(Assets, supply, index)
           sh == SharesFor(a, idx)
<1>1. /\ Assets \in Nat /\ supply \in Nat /\ index \in Nat \ {0}
      /\ usdc \in [Accounts -> Nat] /\ shares \in [Accounts -> Nat]
      /\ u \in Accounts /\ Pool \in Accounts /\ u # Pool /\ a \in Nat
      /\ Users \subseteq Accounts /\ Pool \notin Users
  BY AssetsNat, LpAssumption, UsdcAssumption DEF LpTypes, LpTypeOK, UsdcTypeOK
<1>2. idx \in Nat \ {0} /\ (idx = index \/ supply * idx <= Assets * Decimals)
  BY <1>1, IndexForGrows, IndexForCovered
<1>3. sh \in Nat
  <2> HIDE DEF idx
  <2> QED BY <1>1, <1>2, SharesRoundDown
<1>4. /\ index' = idx /\ borrowed' = borrowed
      /\ usdc' = [usdc EXCEPT ![u] = usdc[u] - a, ![Pool] = usdc[Pool] + a]
      /\ shares' = [shares EXCEPT ![u] = shares[u] + sh]
      /\ supply' = supply + sh
  BY <1>1 DEF Deposit, Moved, MintShares
<1>5. Assets' = Assets + a
  <2>1. usdc'[Pool] = usdc[Pool] + a
    BY <1>1, <1>4
  <2>2. borrowed \in Nat
    BY DEF LpTypes, LpTypeOK
  <2> QED BY <2>1, <2>2, <1>1, <1>4 DEF Assets
<1>6. RoundsForPool
  <2>1. \/ (Assets + a) * Decimals - (supply + sh) * idx >= 0
        \/ (Assets + a) * Decimals - (supply + sh) * idx >= Assets * Decimals - supply * index
    <3> HIDE DEF idx
    <3> QED BY <1>1, <1>2, DepositSurplus
  <2>2. Surplus' = (Assets + a) * Decimals - (supply + sh) * idx
    <3> HIDE DEF idx, sh
    <3> QED BY <1>4, <1>5 DEF Surplus
  <2>3. Surplus = Assets * Decimals - supply * index
    BY DEF Surplus
  <2>4. Surplus' \in Int /\ Surplus \in Int /\ index' \in Nat \ {0}
    <3>1. Decimals \in Nat
      BY LpAssumption
    <3> HIDE DEF idx, sh
    <3> QED BY <3>1, <2>2, <2>3, <1>1, <1>2, <1>3, <1>4
  <2> HIDE DEF idx, sh
  <2> QED BY <2>1, <2>2, <2>3, <2>4 DEF RoundsForPool
<1>7. RoundsForHolder
  <2> HIDE DEF idx, sh
  <2>1. ~ (supply' < supply)
    BY <1>1, <1>3, <1>4
  <2> QED BY <2>1 DEF RoundsForHolder
<1>8. NewcomerPays
  <2> SUFFICES ASSUME NEW w \in Users, supply > 0, shares[w] = 0, shares'[w] > 0
               PROVE  ValueOf(shares'[w], IndexFor(Assets', supply', index'))
                        <= usdc[w] - usdc'[w]
    BY DEF NewcomerPays
  <2>1. w = u
    <3> HIDE DEF sh, idx
    <3> QED BY <1>1, <1>4
  <2>2. shares'[w] = sh /\ usdc[w] - usdc'[w] = a
    <3> HIDE DEF sh, idx
    <3> QED BY <2>1, <1>1, <1>3, <1>4
  <2>3. supply \in Nat \ {0}
    BY <1>1
  <2>4. ValueOf(sh, IndexFor(Assets + a, supply + sh, idx)) <= a
    <3>1. idx = IndexFor(Assets, supply, index) /\ sh = SharesFor(a, idx)
      OBVIOUS
    <3> HIDE DEF idx, sh
    <3> QED BY <3>1, <2>3, <1>1, <1>2, <1>3, DepositWorth
  <2> HIDE DEF idx, sh
  <2> QED BY <2>2, <2>4, <1>4, <1>5
<1> QED BY <1>6, <1>7, <1>8

(* A withdrawal takes less than a share too few, and never too many.       *)
LEMMA WithdrawRounds ==
  ASSUME LpTypes, NEW u \in Users, NEW a \in WithdrawAmounts, NEW l,
         Withdraw(u, a, l)
  PROVE  RoundsForPool /\ RoundsForHolder /\ NewcomerPays
<1> DEFINE sh == SharesFor(a, index)
           D == Decimals
<1>1. /\ Assets \in Nat /\ supply \in Nat /\ index \in Nat \ {0} /\ borrowed \in Nat
      /\ usdc \in [Accounts -> Nat] /\ shares \in [Accounts -> Nat]
      /\ u \in Accounts /\ Pool \in Accounts /\ u # Pool /\ a \in Nat
      /\ Users \subseteq Accounts /\ Pool \notin Users
  BY AssetsNat, LpAssumption, UsdcAssumption DEF LpTypes, LpTypeOK, UsdcTypeOK
<1>2. /\ sh \in Nat /\ sh * index <= a * D /\ a * D < sh * index + index
      /\ D \in Nat
  BY <1>1, SharesRoundDown, LpAssumption
<1>3. /\ index' = index /\ borrowed' = borrowed /\ usdc[Pool] >= a
      /\ usdc' = [usdc EXCEPT ![Pool] = usdc[Pool] - a, ![u] = usdc[u] + a]
      /\ sh <= shares[u] /\ sh <= supply
      /\ shares' = [shares EXCEPT ![u] = shares[u] - sh]
      /\ supply' = supply - sh
  BY <1>1 DEF Withdraw, CanMove, Moved, CanBurnShares, BurnShares, AmountToShares
<1> HIDE DEF sh
<1>4. Assets' = Assets - a
  <2>1. usdc'[Pool] = usdc[Pool] - a /\ usdc[Pool] \in Nat
    BY <1>1, <1>3
  <2> QED BY <2>1, <1>1, <1>3 DEF Assets
<1>5. RoundsForPool
  <2> HIDE DEF D
  <2>1. Surplus' = (Assets - a) * D - (supply - sh) * index
    BY <1>3, <1>4 DEF Surplus, D
  <2>2. Surplus = Assets * D - supply * index
    BY DEF Surplus, D
  <2>3. /\ (Assets - a) * D = Assets * D - a * D
        /\ (supply - sh) * index = supply * index - sh * index
    BY <1>1, <1>2
  <2>4. /\ Assets * D \in Int /\ a * D \in Int /\ supply * index \in Int
        /\ sh * index \in Int
    BY <1>1, <1>2
  <2>5. Surplus' > Surplus - index'
    BY <2>1, <2>2, <2>3, <2>4, <1>1, <1>2, <1>3
  <2> QED BY <2>5 DEF RoundsForPool
<1>6. RoundsForHolder
  <2> SUFFICES ASSUME NEW w \in Users, usdc'[w] > usdc[w]
               PROVE  Balance(w) - Balance(w)' <= usdc'[w] - usdc[w]
    BY DEF RoundsForHolder
  <2>1. w = u
    BY <1>1, <1>3
  <2>2. usdc'[w] - usdc[w] = a
    BY <2>1, <1>1, <1>3
  <2>3. Balance(w) = ValueOf(shares[u], index)
    BY <2>1 DEF Balance
  <2>4. Balance(w)' = ValueOf(shares[u] - sh, index)
    <3>1. shares'[u] = shares[u] - sh
      BY <1>1, <1>3
    <3> QED BY <2>1, <3>1, <1>3 DEF Balance
  <2>5. ValueOf(shares[u], index) - ValueOf(shares[u] - sh, index) <= a
    <3>1. shares[u] \in Nat /\ sh = SharesFor(a, index)
      BY <1>1 DEF sh
    <3> QED BY <3>1, <1>1, <1>2, <1>3, SharesTakenWorthAtMost
  <2> QED BY <2>2, <2>3, <2>4, <2>5
<1>7. NewcomerPays
  <2>1. \A w \in Users : ~ (usdc'[w] < usdc[w])
    BY <1>1, <1>3
  <2> QED BY <2>1 DEF NewcomerPays
<1> QED BY <1>5, <1>6, <1>7

(* The same of every call to the pool, whatever the core says is locked.   *)
LEMMA LpCallRounds ==
  ASSUME LpTypes, NEW locked, LpCall(locked)
  PROVE  RoundsForPool /\ RoundsForHolder /\ NewcomerPays
<1>0. /\ Assets \in Nat /\ supply \in Nat /\ index \in Nat \ {0} /\ borrowed \in Nat
      /\ usdc \in [Accounts -> Nat] /\ shares \in [Accounts -> Nat]
      /\ Pool \in Accounts /\ Users \subseteq Accounts /\ Pool \notin Users
      /\ Decimals \in Nat
  BY AssetsNat, LpAssumption, UsdcAssumption DEF LpTypes, LpTypeOK, UsdcTypeOK
<1>c. \A n \in Nat : AmountToShares(n) \in Nat
  BY <1>0, ConversionsNat DEF AmountToShares
<1>1. ASSUME UpdateIndex
      PROVE  RoundsForPool /\ RoundsForHolder /\ NewcomerPays
  <2>1. supply' = supply /\ usdc' = usdc /\ shares' = shares /\ borrowed' = borrowed
    BY <1>1 DEF UpdateIndex, usdcVars
  <2>2. index' = index \/ supply * index' <= Assets * Decimals
    BY <1>0, <1>1, IndexForCovered DEF UpdateIndex
  <2>3. CASE index' = index
    BY <2>1, <2>3, <1>0, QuietCall
  <2>4. CASE supply * index' <= Assets * Decimals
    <3>1. Surplus' = Assets * Decimals - supply * index'
      BY <2>1 DEF Surplus, Assets
    <3>2. Assets * Decimals \in Int /\ supply * index' \in Int
      <4>1. index' \in Nat
        BY <1>1, <1>0, IndexForGrows DEF UpdateIndex
      <4> QED BY <4>1, <1>0
    <3>3. Surplus' >= 0
      BY <3>1, <3>2, <2>4
    <3>4. \A u \in Users : ~ (supply' < supply) /\ ~ (usdc'[u] < usdc[u])
      BY <2>1, <1>0
    <3> QED BY <3>3, <3>4 DEF RoundsForPool, RoundsForHolder, NewcomerPays
  <2> QED BY <2>2, <2>3, <2>4
<1>4. ASSUME NEW u \in Users, NEW a \in MintAmounts, LpMint(u, a)
      PROVE  RoundsForPool /\ RoundsForHolder /\ NewcomerPays
  <2>1. AmountToShares(a) \in Nat /\ u \in Accounts
    BY <1>0, <1>c, LpAssumption
  <2>2. /\ supply' = supply + AmountToShares(a) /\ usdc' = usdc
        /\ index' = index /\ borrowed' = borrowed
    BY <1>4 DEF LpMint, MintShares, usdcVars
  <2>3. CASE AmountToShares(a) = 0
    BY <2>2, <2>3, <1>0, QuietCall
  <2>4. CASE AmountToShares(a) > 0
    <3>1. supply' > supply
      BY <2>1, <2>2, <2>4, <1>0
    <3>2. \A w \in Users : ~ (supply' < supply) /\ ~ (usdc'[w] < usdc[w])
      BY <3>1, <2>1, <2>2, <1>0
    <3> QED BY <3>1, <3>2, <2>2 DEF RoundsForPool, RoundsForHolder, NewcomerPays
  <2> QED BY <2>1, <2>3, <2>4
<1>5. ASSUME NEW u \in Users, NEW a \in DonationAmounts, Donate(u, a)
      PROVE  RoundsForPool /\ RoundsForHolder /\ NewcomerPays
  <2>1. a \in Nat /\ u \in Accounts /\ u # Pool
    BY <1>0, LpAssumption
  <2>2. /\ usdc' = [usdc EXCEPT ![u] = usdc[u] - a, ![Pool] = usdc[Pool] + a]
        /\ supply' = supply /\ shares' = shares /\ index' = index /\ borrowed' = borrowed
    BY <1>5, <2>1, <1>0 DEF Donate, UsdcTransfer, Moved, lpVars, poolVars
  <2>3. Assets' = Assets + a
    <3>1. usdc'[Pool] = usdc[Pool] + a /\ usdc[Pool] \in Nat
      BY <2>1, <2>2, <1>0
    <3> QED BY <3>1, <2>1, <2>2, <1>0 DEF Assets
  <2>4. Surplus' > Surplus - index'
    <3>1. Surplus' = (Assets + a) * Decimals - supply * index
      BY <2>2, <2>3 DEF Surplus
    <3>2. Surplus = Assets * Decimals - supply * index
      BY DEF Surplus
    <3>3. /\ (Assets + a) * Decimals = Assets * Decimals + a * Decimals
          /\ Assets * Decimals \in Nat /\ a * Decimals \in Nat /\ supply * index \in Nat
      BY <2>1, <1>0
    <3> QED BY <3>1, <3>2, <3>3, <2>2, <1>0
  <2>5. \A w \in Users : ~ (supply' < supply) /\ ~ (shares[w] = 0 /\ shares'[w] > 0)
    BY <2>2, <1>0
  <2> QED BY <2>4, <2>5 DEF RoundsForPool, RoundsForHolder, NewcomerPays
<1>b. ASSUME NEW u \in Users, NEW a \in TransferAmounts, DoBurn(u, a, locked[u])
      PROVE  supply' \in Nat /\ supply' <= supply
  <2>1. AmountToShares(a) \in Nat
    BY <1>c, LpAssumption
  <2> QED BY <1>b, <2>1, <1>0 DEF DoBurn, CanBurnShares, BurnShares
<1>6. ASSUME NEW u \in Users, NEW a \in TransferAmounts, LpBurn(u, a, locked[u])
      PROVE  RoundsForPool /\ RoundsForHolder /\ NewcomerPays
  BY <1>6, <1>b, QuietCall DEF LpBurn, usdcVars
<1>7. ASSUME NEW u \in Users, NEW to \in Users, NEW a \in TransferAmounts,
             LpTransfer(u, to, a, locked[u])
      PROVE  RoundsForPool /\ RoundsForHolder /\ NewcomerPays
  BY <1>7, <1>0, QuietCall DEF LpTransfer, usdcVars, poolVars
<1>8. ASSUME NEW u \in Users, NEW to \in Users, NEW a \in LpApproveAmounts,
             LpApprove(u, to, a)
      PROVE  RoundsForPool /\ RoundsForHolder /\ NewcomerPays
  BY <1>8, <1>0, QuietCall DEF LpApprove, usdcVars, poolVars
<1>9. ASSUME NEW u \in Users, NEW to \in Users, NEW a \in TransferAmounts,
             LpBurnFrom(to, u, a, locked[u])
      PROVE  RoundsForPool /\ RoundsForHolder /\ NewcomerPays
  BY <1>9, <1>b, QuietCall DEF LpBurnFrom, usdcVars
<1>10. ASSUME NEW s \in Users, NEW u \in Users, NEW to \in Users,
              NEW a \in TransferAmounts, LpTransferFrom(s, u, to, a, locked[u])
       PROVE  RoundsForPool /\ RoundsForHolder /\ NewcomerPays
  BY <1>10, <1>0, QuietCall DEF LpTransferFrom, usdcVars, poolVars
<1>11. ASSUME NEW a \in Underlyings, LpInitialize(a)
       PROVE  RoundsForPool /\ RoundsForHolder /\ NewcomerPays
  <2>1. /\ supply' = 0 /\ borrowed' = 0 /\ usdc' = usdc /\ index' = Decimals
        /\ \A u \in Users : shares'[u] = 0
    BY <1>11, <1>0 DEF LpInitialize, usdcVars
  <2>2. Surplus' = usdc[Pool] * Decimals
    <3>1. Surplus' = (usdc'[Pool] + borrowed') * Decimals - supply' * index'
      BY DEF Surplus, Assets
    <3>2. usdc[Pool] \in Nat
      BY <1>0
    <3> QED BY <3>1, <3>2, <2>1, <1>0
  <2>3. Surplus' >= 0
    BY <2>2, <1>0
  <2>4. \A u \in Users : usdc[u] \in Nat
    BY <1>0
  <2>5. \A u \in Users : ~ (usdc'[u] > usdc[u]) /\ ~ (usdc'[u] < usdc[u])
    BY <2>1, <2>4
  <2> QED BY <2>3, <2>5 DEF RoundsForPool, RoundsForHolder, NewcomerPays
<1> QED BY <1>1, <1>4, <1>5, <1>6, <1>7, <1>8, <1>9, <1>10, <1>11,
           DepositRounds, WithdrawRounds
    DEF LpCall

(* Rounding goes neither against the pool, by a share or more in a call,   *)
(* nor against whoever withdraws, for every amount, index and scale.       *)
THEOREM RoundingAlwaysBounded == LpSpec => RoundingBounded
<1>1. LpSpec => []LpTypes
  BY LpTypeCorrect DEF LpTypes
<1>2. LpTypes /\ [LpNext]_poolOnlyVars =>
        [RoundsForPool]_poolOnlyVars /\ [RoundsForHolder]_poolOnlyVars
  BY LpCallRounds DEF LpNext
<1>3. LpSpec => [][RoundsForPool]_poolOnlyVars /\ [][RoundsForHolder]_poolOnlyVars
  BY <1>1, <1>2, PTL DEF LpSpec
<1> QED BY <1>3
    DEF RoundingBounded, RoundingLossBounded, WithdrawalNotOvercharged,
        RoundsForPool, RoundsForHolder

(* A depositor who joins others takes no yield that came before it.        *)
THEOREM NewcomersPayTheirWay == LpSpec => NewcomerTakesNoPastYield
<1>1. LpSpec => []LpTypes
  BY LpTypeCorrect DEF LpTypes
<1>2. LpTypes /\ [LpNext]_poolOnlyVars => [NewcomerPays]_poolOnlyVars
  BY LpCallRounds DEF LpNext
<1>3. LpSpec => [][NewcomerPays]_poolOnlyVars
  BY <1>1, <1>2, PTL DEF LpSpec
<1> QED BY <1>3 DEF NewcomerTakesNoPastYield, NewcomerPays

-----------------------------------------------------------------------------
(* Shares that are minted or burned move the supply with them.             *)
LEMMA SharesWithSupply ==
  ASSUME LpTypes, NEW u \in Users, NEW sh \in Int, shares' \in [Accounts -> Int],
         \A x \in Accounts \ {u} : shares'[x] = shares[x],
         shares'[u] = shares[u] + sh, supply' = supply + sh
  PROVE  SharesOverSupply' = SharesOverSupply
<1>1. /\ IsFiniteSet(Accounts) /\ u \in Accounts /\ supply \in Int
      /\ shares \in [Accounts -> Int] /\ shares[u] \in Int
  BY UsdcAssumption DEF LpTypes, LpTypeOK
<1>2. SumFunction(shares) \in Int
      /\ SumFunction(shares') = SumFunction(shares) - shares[u] + shares'[u]
  BY <1>1, SumUpdate, Zenon
<1> QED BY <1>1, <1>2 DEF SharesOverSupply

(* A transfer between two holders leaves the sum of the shares alone.      *)
LEMMA TransferKeepsShares ==
  ASSUME LpTypes, NEW u \in Users, NEW to \in Users, u # to,
         NEW a \in TransferAmounts, NEW l, DoTransfer(u, to, a, l), supply' = supply
  PROVE  SharesOverSupply' = SharesOverSupply
<1> DEFINE sh == AmountToShares(a)
<1>1. /\ IsFiniteSet(Accounts) /\ u \in Accounts /\ to \in Accounts
      /\ shares \in [Accounts -> Nat] /\ a \in Nat /\ index \in Nat \ {0}
  BY UsdcAssumption, LpAssumption DEF LpTypes, LpTypeOK
<1>2. sh \in Nat /\ shares[u] >= sh /\ shares' = Moved(shares, u, to, sh)
  BY <1>1, ConversionsNat DEF DoTransfer, AmountToShares
<1> HIDE DEF sh
<1>3. SumFunction(Moved(shares, u, to, sh)) = SumFunction(shares)
  BY <1>1, <1>2, MovedSum
<1> QED BY <1>2, <1>3 DEF SharesOverSupply

(* Whatever the core says is locked, a call that is not a transfer of a    *)
(* holder to itself, and does not start afresh, keeps shares and supply in *)
(* step.                                                                   *)
LEMMA LpCallTracksSupply ==
  ASSUME LpTypes, NEW locked, LpCall(locked)
  PROVE  \/ SharesOverSupply' = SharesOverSupply
         \/ \E u, s \in Users, a \in TransferAmounts :
              \/ LpTransfer(u, u, a, locked[u])
              \/ LpTransferFrom(s, u, u, a, locked[u])
         \/ Restarted
<1>0. /\ supply \in Nat /\ index \in Nat \ {0} /\ Assets \in Nat
      /\ shares \in [Accounts -> Nat] /\ Users \subseteq Accounts
  BY AssetsNat, UsdcAssumption DEF LpTypes, LpTypeOK
<1>c. \A n \in Nat : AmountToShares(n) \in Nat
  BY <1>0, ConversionsNat DEF AmountToShares
<1>m. ASSUME NEW u \in Users, NEW sh \in Nat, MintShares(u, sh)
      PROVE  SharesOverSupply' = SharesOverSupply
  <2>1. /\ shares' \in [Accounts -> Int] /\ shares'[u] = shares[u] + sh
        /\ supply' = supply + sh /\ \A x \in Accounts \ {u} : shares'[x] = shares[x]
    BY <1>m, <1>0 DEF MintShares
  <2> QED BY <2>1, SharesWithSupply
<1>b. ASSUME NEW u \in Users, NEW sh \in Nat, BurnShares(u, sh)
      PROVE  SharesOverSupply' = SharesOverSupply
  <2> DEFINE d == 0 - sh
  <2>1. /\ d \in Int /\ shares' \in [Accounts -> Int] /\ shares'[u] = shares[u] + d
        /\ supply' = supply + d /\ \A x \in Accounts \ {u} : shares'[x] = shares[x]
    BY <1>b, <1>0 DEF BurnShares
  <2> HIDE DEF d
  <2> QED BY <2>1, SharesWithSupply
<1>q. ASSUME shares' = shares, supply' = supply
      PROVE  SharesOverSupply' = SharesOverSupply
  BY <1>q DEF SharesOverSupply
<1>1. CASE UpdateIndex
  BY <1>1, <1>q DEF UpdateIndex
<1>2. ASSUME NEW u \in Users, NEW a \in DepositAmounts, Deposit(u, a)
      PROVE  SharesOverSupply' = SharesOverSupply
  <2> DEFINE idx == IndexFor(Assets, supply, index)
             sh == SharesFor(a, idx)
  <2>1. a \in Nat /\ idx \in Nat \ {0} /\ sh \in Nat
    <3>1. a \in Nat /\ idx \in Nat \ {0}
      BY <1>0, IndexForGrows, LpAssumption
    <3> HIDE DEF idx
    <3> QED BY <3>1, ConversionsNat
  <2>2. MintShares(u, sh)
    BY <1>2 DEF Deposit
  <2> HIDE DEF sh
  <2> QED BY <2>1, <2>2, <1>m
<1>3. ASSUME NEW u \in Users, NEW a \in WithdrawAmounts, Withdraw(u, a, locked[u])
      PROVE  SharesOverSupply' = SharesOverSupply
  BY <1>3, <1>b, <1>c, LpAssumption DEF Withdraw
<1>4. ASSUME NEW u \in Users, NEW a \in MintAmounts, LpMint(u, a)
      PROVE  SharesOverSupply' = SharesOverSupply
  BY <1>4, <1>m, <1>c, LpAssumption DEF LpMint
<1>5. ASSUME NEW u \in Users, NEW a \in DonationAmounts, Donate(u, a)
      PROVE  SharesOverSupply' = SharesOverSupply
  BY <1>5, <1>q DEF Donate, lpVars
<1>6. ASSUME NEW u \in Users, NEW a \in TransferAmounts, DoBurn(u, a, locked[u])
      PROVE  SharesOverSupply' = SharesOverSupply
  BY <1>6, <1>b, <1>c, LpAssumption DEF DoBurn
<1>7. ASSUME NEW u \in Users, NEW to \in Users, NEW a \in LpApproveAmounts,
             LpApprove(u, to, a)
      PROVE  SharesOverSupply' = SharesOverSupply
  BY <1>7, <1>q DEF LpApprove, poolVars
<1>8. ASSUME NEW u \in Users, NEW to \in Users, NEW a \in TransferAmounts,
             LpTransfer(u, to, a, locked[u])
      PROVE  SharesOverSupply' = SharesOverSupply \/ u = to
  BY <1>8, TransferKeepsShares DEF LpTransfer, poolVars
<1>9. ASSUME NEW s \in Users, NEW u \in Users, NEW to \in Users,
             NEW a \in TransferAmounts, LpTransferFrom(s, u, to, a, locked[u])
      PROVE  SharesOverSupply' = SharesOverSupply \/ u = to
  BY <1>9, TransferKeepsShares DEF LpTransferFrom, poolVars
<1> QED BY <1>1, <1>2, <1>3, <1>4, <1>5, <1>6, <1>7, <1>8, <1>9
    DEF LpCall, LpBurn, LpBurnFrom, Restarted

(* What the holders' shares exceed the counted supply by changes only when *)
(* a holder transfers to itself or initialize starts the pool afresh.      *)
THEOREM SharesTracked == LpSpec => SharesTrackSupply
<1>1. LpSpec => []LpTypes
  BY LpTypeCorrect DEF LpTypes
<1>2. LpTypes /\ [LpNext]_poolOnlyVars =>
        [\/ SharesOverSupply' = SharesOverSupply
         \/ \E u, s \in Users, a \in TransferAmounts :
              \/ LpTransfer(u, u, a, 0)
              \/ LpTransferFrom(s, u, u, a, 0)
         \/ \E a \in Underlyings : LpInitialize(a)]_poolOnlyVars
  <2> DEFINE none == [u \in Users |-> 0]
  <2>1. \A u \in Users : none[u] = 0
    OBVIOUS
  <2> HIDE DEF none
  <2>2. ASSUME LpTypes, LpCall(none)
        PROVE  \/ SharesOverSupply' = SharesOverSupply
               \/ \E u, s \in Users, a \in TransferAmounts :
                    \/ LpTransfer(u, u, a, 0)
                    \/ LpTransferFrom(s, u, u, a, 0)
               \/ \E a \in Underlyings : LpInitialize(a)
    BY <2>1, <2>2, LpCallTracksSupply DEF Restarted
  <2> QED BY <2>2 DEF LpNext, none
<1> QED BY <1>1, <1>2, PTL DEF LpSpec, SharesTrackSupply
=============================================================================
