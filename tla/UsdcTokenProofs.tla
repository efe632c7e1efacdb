--------------------------- MODULE UsdcTokenProofs ---------------------------
(* Type correctness of the USDC token, its supply and its daily limit, and *)
(* facts about moving balances.                                            *)
EXTENDS UsdcToken, ArithmeticProofs

(* Moving an amount between two accounts keeps the sum of the balances.    *)
LEMMA MovedSum ==
  ASSUME NEW A, IsFiniteSet(A), NEW b \in [A -> Nat], NEW from \in A, NEW to \in A,
         from # to, NEW amount \in Nat, b[from] >= amount
  PROVE  SumFunction(Moved(b, from, to, amount)) = SumFunction(b)
<1> DEFINE c == [b EXCEPT ![from] = b[from] - amount]
           d == Moved(b, from, to, amount)
<1>1. b \in [A -> Int] /\ c \in [A -> Int] /\ d \in [A -> Int]
  BY DEF Moved
<1>2. \A y \in A \ {from} : c[y] = b[y]
  OBVIOUS
<1>3. \A y \in A \ {to} : d[y] = c[y]
  BY DEF Moved
<1>4. c[from] = b[from] - amount /\ c[to] = b[to] /\ d[to] = b[to] + amount
  BY DEF Moved
<1> HIDE DEF c, d
<1>5. SumFunction(b) \in Int /\ SumFunction(c) = SumFunction(b) - b[from] + c[from]
  BY <1>1, <1>2, SumUpdate
<1>6. SumFunction(d) = SumFunction(c) - c[to] + d[to]
  BY <1>1, <1>3, SumUpdate
<1> QED BY <1>4, <1>5, <1>6 DEF d

(* A covered move keeps balances natural numbers.                          *)
LEMMA MovedNat ==
  ASSUME NEW A, NEW b \in [A -> Nat], NEW from \in A, NEW to \in A,
         NEW amount \in Nat, b[from] >= amount
  PROVE  Moved(b, from, to, amount) \in [A -> Nat]
BY DEF Moved

(* The days of the ledger are natural numbers.                             *)
LEMMA DaysNat ==
  /\ LedgerDays \subseteq Nat
  /\ now \in Nat => Today \in Nat
  /\ now \in Timestamps => Today \in LedgerDays
<1>1. \A t \in Nat : t \div Day \in Nat
  BY TermsAssumption
<1> QED BY <1>1, UsdcAssumption DEF LedgerDays, Today

(* Every token call and every ledger close keeps the types, in particular  *)
(* no balance and no allowance ever becomes negative.                      *)
LEMMA UsdcCallTypes ==
  ASSUME UsdcTypeOK, UsdcCall
  PROVE  UsdcTypeOK'
<1> USE UsdcAssumption
<1>1. ASSUME NEW u \in Users, NEW a \in UsdcAmounts, UsdcMint(u, a)
      PROVE  UsdcTypeOK'
  <2>1. a \in Nat /\ u \in Accounts /\ MintedToday(u) \in Nat
    BY DEF UsdcTypeOK, MintedToday
  <2>2. Today \in Nat
    BY DaysNat DEF UsdcTypeOK
  <2>3. mintedOn' \in [Users \X LedgerDays -> Nat]
    <3> DEFINE p == <<u, Today>>
               P == Users \X LedgerDays
    <3>1. mintedOn \in [P -> Nat] /\ mintedOn' = [mintedOn EXCEPT ![p] = mintedOn[p] + a]
      BY <1>1 DEF UsdcMint, UsdcTypeOK
    <3> HIDE DEF p, P
    <3>2. ASSUME NEW q \in P
          PROVE  mintedOn'[q] \in Nat
      <4>1. CASE p = q
        BY <2>1, <3>1, <4>1
      <4>2. CASE p # q
        BY <3>1, <4>2
      <4> QED BY <4>1, <4>2
    <3>3. mintedOn' = [q \in P |-> mintedOn'[q]]
      BY <3>1
    <3>4. mintedOn' \in [P -> Nat]
      BY <3>2, <3>3
    <3> QED BY <3>4 DEF P
  <2> QED BY <1>1, <2>1, <2>2, <2>3 DEF UsdcMint, UsdcTypeOK
<1>2. ASSUME NEW u \in Users, NEW a \in UsdcAmounts, UsdcBurn(u, a)
      PROVE  UsdcTypeOK'
  <2>1. a \in Nat /\ u \in Accounts /\ usdc[u] >= a
    BY <1>2 DEF UsdcBurn, CanMove
  <2> QED BY <1>2, <2>1 DEF UsdcBurn, UsdcTypeOK
<1>3. ASSUME NEW u \in Users, NEW to \in Accounts, NEW a \in UsdcAmounts,
             UsdcTransfer(u, to, a)
      PROVE  UsdcTypeOK'
  <2>1. a \in Nat /\ u \in Accounts /\ usdc[u] >= a
    BY <1>3 DEF UsdcTransfer, CanMove
  <2>2. usdc' \in [Accounts -> Nat]
    BY <1>3, <2>1, MovedNat DEF UsdcTransfer, UsdcTypeOK
  <2> QED BY <1>3, <2>2 DEF UsdcTransfer, UsdcTypeOK, mintVars
<1>4. ASSUME NEW u \in Users, NEW s \in Accounts, NEW a \in ApproveAmounts,
             UsdcApprove(u, s, a)
      PROVE  UsdcTypeOK'
  <2>1. a \in Int /\ <<u, s>> \in Pairs
    BY DEF Pairs
  <2> QED BY <1>4, <2>1 DEF UsdcApprove, UsdcTypeOK, mintVars
<1>5. ASSUME NEW s \in Users, NEW u \in Users, NEW a \in UsdcAmounts,
             UsdcBurnFrom(s, u, a)
      PROVE  UsdcTypeOK'
  <2>1. /\ a \in Nat /\ u \in Accounts /\ usdc[u] >= a
        /\ <<u, s>> \in Pairs /\ usdcAllowance[<<u, s>>] >= a
    BY <1>5 DEF UsdcBurnFrom, CanMove, CanSpend, Pairs
  <2>2. usdcAllowance' \in [Pairs -> Int]
    BY <1>5, <2>1 DEF UsdcBurnFrom, Spent, UsdcTypeOK
  <2> QED BY <1>5, <2>1, <2>2 DEF UsdcBurnFrom, UsdcTypeOK
<1>6. ASSUME NEW s \in Users, NEW u \in Users, NEW to \in Accounts,
             NEW a \in UsdcAmounts, UsdcTransferFrom(s, u, to, a)
      PROVE  UsdcTypeOK'
  <2>1. /\ a \in Nat /\ u \in Accounts /\ usdc[u] >= a
        /\ <<u, s>> \in Pairs /\ usdcAllowance[<<u, s>>] >= a
    BY <1>6 DEF UsdcTransferFrom, CanMove, CanSpend, Pairs
  <2>2. usdcAllowance' \in [Pairs -> Int]
    BY <1>6, <2>1 DEF UsdcTransferFrom, Spent, UsdcTypeOK
  <2>3. usdc' \in [Accounts -> Nat]
    BY <1>6, <2>1, MovedNat DEF UsdcTransferFrom, UsdcTypeOK
  <2> QED BY <1>6, <2>2, <2>3 DEF UsdcTransferFrom, UsdcTypeOK, mintVars
<1> QED BY <1>1, <1>2, <1>3, <1>4, <1>5, <1>6 DEF UsdcCall

(* The passing of time keeps the types.                                    *)
LEMMA LedgerCloseTypes ==
  ASSUME UsdcTypeOK, LedgerClose
  PROVE  UsdcTypeOK'
BY UsdcAssumption DEF UsdcTypeOK, LedgerClose, mintVars

(* The deployed token, with the endowment minted, is well typed.           *)
LEMMA UsdcInitTypes == UsdcInit => UsdcTypeOK
<1>1. SumFunction(Endowment) \in Nat
  BY UsdcAssumption, SumCoversEach
<1> QED BY <1>1, UsdcAssumption DEF UsdcInit, UsdcTypeOK

(* Type correctness of the USDC token contract.                            *)
THEOREM UsdcTypeCorrect == UsdcSpec => []UsdcTypeOK
<1>1. UsdcTypeOK /\ [UsdcNext]_usdcVars => UsdcTypeOK'
  <2>1. UsdcTypeOK /\ UNCHANGED usdcVars => UsdcTypeOK'
    BY DEF UsdcTypeOK, usdcVars
  <2> QED BY <2>1, UsdcCallTypes, LedgerCloseTypes DEF UsdcNext
<1> QED BY UsdcInitTypes, <1>1, PTL DEF UsdcSpec

(* A call that is not a transfer of an account to itself moves the sum of  *)
(* the balances and the supply by the same amount.                         *)
LEMMA UsdcCallTracksSupply ==
  ASSUME UsdcTypeOK, UsdcCall
  PROVE  \/ BalancesOverSupply' = BalancesOverSupply
         \/ \E u, s \in Users, a \in UsdcAmounts :
              UsdcTransfer(u, u, a) \/ UsdcTransferFrom(s, u, u, a)
<1> USE UsdcAssumption
<1>0. /\ usdc \in [Accounts -> Nat] /\ usdc \in [Accounts -> Int] /\ usdcSupply \in Int
      /\ SumFunction(usdc) \in Nat
  <2>1. usdc \in [Accounts -> Nat] /\ usdcSupply \in Int
    BY DEF UsdcTypeOK
  <2> QED BY <2>1, SumCoversEach
<1>1. ASSUME NEW u \in Users, NEW a \in UsdcAmounts, UsdcMint(u, a)
      PROVE  BalancesOverSupply' = BalancesOverSupply
  <2>1. u \in Accounts /\ a \in Nat /\ usdc' = [usdc EXCEPT ![u] = usdc[u] + a]
        /\ usdcSupply' = usdcSupply + a
    BY <1>1 DEF UsdcMint
  <2>2. u \in Accounts /\ usdc' \in [Accounts -> Int] /\ \A x \in Accounts \ {u} : usdc'[x] = usdc[x]
    BY <1>0, <2>1
  <2>3. SumFunction(usdc') = SumFunction(usdc) - usdc[u] + usdc'[u]
    BY <1>0, <2>2, SumUpdate, Zenon
  <2> QED BY <1>0, <2>1, <2>3 DEF BalancesOverSupply
<1>2. ASSUME NEW u \in Users, NEW a \in UsdcAmounts,
             usdc' = [usdc EXCEPT ![u] = usdc[u] - a], usdcSupply' = usdcSupply - a
      PROVE  BalancesOverSupply' = BalancesOverSupply
  <2>1. u \in Accounts /\ a \in Nat
    OBVIOUS
  <2>2. u \in Accounts /\ usdc' \in [Accounts -> Int] /\ \A x \in Accounts \ {u} : usdc'[x] = usdc[x]
    BY <1>0, <1>2, <2>1
  <2>3. SumFunction(usdc') = SumFunction(usdc) - usdc[u] + usdc'[u]
    BY <1>0, <2>2, SumUpdate, Zenon
  <2> QED BY <1>0, <1>2, <2>1, <2>3 DEF BalancesOverSupply
<1>3. ASSUME NEW u \in Users, NEW to \in Accounts, NEW a \in UsdcAmounts, u # to,
             CanMove(usdc, u, a), usdc' = Moved(usdc, u, to, a), usdcSupply' = usdcSupply
      PROVE  BalancesOverSupply' = BalancesOverSupply
  <2>1. u \in Accounts /\ a \in Nat /\ usdc[u] >= a
    BY <1>3 DEF CanMove
  <2>2. SumFunction(usdc') = SumFunction(usdc)
    BY <1>0, <1>3, <2>1, MovedSum
  <2> QED BY <1>3, <2>2 DEF BalancesOverSupply
<1>4. CASE \E u \in Users, a \in UsdcAmounts : UsdcMint(u, a) \/ UsdcBurn(u, a)
  BY <1>1, <1>2, <1>4 DEF UsdcBurn
<1>5. CASE \E u \in Users, to \in Accounts, a \in UsdcAmounts : UsdcTransfer(u, to, a)
  BY <1>3, <1>5 DEF UsdcTransfer, mintVars
<1>6. CASE \E u \in Users, s \in Accounts, a \in ApproveAmounts :
             UsdcApprove(u, s, a)
  BY <1>6 DEF UsdcApprove, mintVars, BalancesOverSupply
<1>7. CASE \E s, u \in Users, a \in UsdcAmounts : UsdcBurnFrom(s, u, a)
  BY <1>2, <1>7 DEF UsdcBurnFrom
<1>8. CASE \E s, u \in Users, to \in Accounts, a \in UsdcAmounts :
             UsdcTransferFrom(s, u, to, a)
  BY <1>3, <1>8 DEF UsdcTransferFrom, mintVars
<1> QED BY <1>4, <1>5, <1>6, <1>7, <1>8 DEF UsdcCall

(* Balances and TotalSupply stay in step through mint, burn, transfer and  *)
(* their allowance variants, except for transfers of an account to itself. *)
THEOREM SupplyTracked == UsdcSpec => BalancesTrackSupply
<1>1. UsdcTypeOK /\ [UsdcNext]_usdcVars =>
        [\/ BalancesOverSupply' = BalancesOverSupply
         \/ \E u, s \in Users, a \in UsdcAmounts :
              UsdcTransfer(u, u, a) \/ UsdcTransferFrom(s, u, u, a)]_usdcVars
  <2>1. LedgerClose => BalancesOverSupply' = BalancesOverSupply
    BY DEF LedgerClose, BalancesOverSupply, mintVars
  <2> QED BY <2>1, UsdcCallTracksSupply DEF UsdcNext
<1> QED BY UsdcTypeCorrect, <1>1, PTL DEF UsdcSpec, BalancesTrackSupply

-----------------------------------------------------------------------------
(* The daily limit.  What the counter holds is what was minted on the day  *)
(* of the last mint, and no day after that has seen any.                   *)
DailyInv ==
  /\ UsdcTypeOK
  /\ now \in Timestamps
  /\ \A u \in Users :
       /\ lastMint[u] \in LedgerDays /\ lastMint[u] <= Today
       /\ dailyMinted[u] = mintedOn[<<u, lastMint[u]>>]
       /\ \A d \in LedgerDays :
            /\ mintedOn[<<u, d>>] <= MintLimit
            /\ d > lastMint[u] => mintedOn[<<u, d>>] = 0

(* Today's counter is what was minted today, also on a day without mints.  *)
LEMMA DailyCounted ==
  ASSUME DailyInv
  PROVE  DailyLimitHolds
<1>1. ASSUME NEW u \in Users
      PROVE  MintedToday(u) = mintedOn[<<u, Today>>]
  <2>1. /\ Today \in LedgerDays /\ Today \in Nat
        /\ lastMint[u] \in Nat /\ lastMint[u] <= Today
        /\ dailyMinted[u] = mintedOn[<<u, lastMint[u]>>]
        /\ Today > lastMint[u] => mintedOn[<<u, Today>>] = 0
    BY DaysNat DEF DailyInv
  <2>2. CASE lastMint[u] < Today
    BY <2>1, <2>2 DEF MintedToday
  <2>3. CASE lastMint[u] = Today
    BY <2>1, <2>3 DEF MintedToday
  <2> QED BY <2>1, <2>2, <2>3
<1>2. ASSUME NEW p \in Users \X LedgerDays
      PROVE  mintedOn[p] <= MintLimit
  <2>1. PICK u \in Users, d \in LedgerDays : p = <<u, d>>
    OBVIOUS
  <2> QED BY <2>1 DEF DailyInv
<1> QED BY <1>1, <1>2 DEF DailyLimitHolds

(* A mint of today adds to today's counter what it adds to today's total.  *)
LEMMA MintCounted ==
  ASSUME DailyInv, UsdcTypeOK', NEW to \in Users, NEW amount \in UsdcAmounts,
         UsdcMint(to, amount)
  PROVE  DailyInv'
<1>1. /\ amount \in Nat /\ Today \in LedgerDays /\ LedgerDays \subseteq Nat
      /\ MintedToday(to) = mintedOn[<<to, Today>>] /\ Today' = Today
      /\ mintedOn \in [Users \X LedgerDays -> Nat]
      /\ lastMint \in [Users -> Nat] /\ dailyMinted \in [Users -> Nat]
      /\ MintLimit \in Nat
  BY DaysNat, DailyCounted, UsdcAssumption
  DEF DailyInv, DailyLimitHolds, UsdcMint, Today, UsdcTypeOK
<1>2. /\ lastMint' = [lastMint EXCEPT ![to] = Today]
      /\ dailyMinted' = [dailyMinted EXCEPT ![to] = mintedOn[<<to, Today>>] + amount]
      /\ mintedOn' = [mintedOn EXCEPT ![<<to, Today>>] = mintedOn[<<to, Today>>] + amount]
      /\ mintedOn[<<to, Today>>] + amount <= MintLimit
      /\ now' = now
  BY <1>1 DEF UsdcMint
<1>3. ASSUME NEW u \in Users
      PROVE  /\ lastMint'[u] \in LedgerDays /\ lastMint'[u] <= Today
             /\ dailyMinted'[u] = mintedOn'[<<u, lastMint'[u]>>]
             /\ \A d \in LedgerDays :
                  /\ mintedOn'[<<u, d>>] <= MintLimit
                  /\ d > lastMint'[u] => mintedOn'[<<u, d>>] = 0
  <2>0. /\ lastMint[u] \in LedgerDays /\ lastMint[u] <= Today
        /\ dailyMinted[u] = mintedOn[<<u, lastMint[u]>>]
        /\ \A d \in LedgerDays :
             /\ mintedOn[<<u, d>>] <= MintLimit
             /\ d > lastMint[u] => mintedOn[<<u, d>>] = 0
    BY DEF DailyInv
  <2>1. CASE u # to
    <3>1. /\ lastMint'[u] = lastMint[u] /\ dailyMinted'[u] = dailyMinted[u]
          /\ \A d \in LedgerDays : mintedOn'[<<u, d>>] = mintedOn[<<u, d>>]
      BY <2>1, <1>1, <1>2
    <3> QED BY <2>0, <3>1
  <2>2. CASE u = to
    <3>1. /\ lastMint'[u] = Today
          /\ dailyMinted'[u] = mintedOn[<<u, Today>>] + amount
          /\ mintedOn'[<<u, Today>>] = mintedOn[<<u, Today>>] + amount
          /\ \A d \in LedgerDays \ {Today} : mintedOn'[<<u, d>>] = mintedOn[<<u, d>>]
      BY <2>2, <1>1, <1>2
    <3> QED BY <2>0, <2>2, <3>1, <1>1, <1>2
  <2> QED BY <2>1, <2>2
<1>4. now' \in Timestamps /\ Today' = Today
  BY <1>1, <1>2 DEF DailyInv
<1> QED BY <1>3, <1>4 DEF DailyInv

(* A later ledger can start a new day; no counter then belongs to it.      *)
LEMMA LedgerCloseCounted ==
  ASSUME DailyInv, LedgerClose
  PROVE  DailyInv'
<1> DEFINE t == now'
           days == t \div Day
<1>1. /\ t \in Timestamps /\ now < t /\ now \in Nat /\ t \in Nat
      /\ UNCHANGED <<lastMint, dailyMinted, mintedOn>> /\ UsdcTypeOK'
  BY LedgerCloseTypes, UsdcAssumption DEF LedgerClose, DailyInv, UsdcTypeOK, mintVars
<1>2. Today \in Nat /\ days \in Nat /\ Today <= days /\ Today' = days
  <2>1. Today' = days /\ Today = now \div Day
    BY DEF Today
  <2> HIDE DEF t
  <2>2. now \div Day \in Nat /\ t \div Day \in Nat /\ now \div Day <= t \div Day
    BY <1>1, TermsAssumption, QuotientGrows
  <2> QED BY <2>1, <2>2
<1>3. \A u \in Users : lastMint[u] \in Nat
  BY DEF DailyInv, UsdcTypeOK
<1> HIDE DEF days
<1>4. ASSUME NEW u \in Users
      PROVE  lastMint'[u] <= Today'
  <2>1. lastMint'[u] = lastMint[u] /\ lastMint[u] \in Nat /\ lastMint[u] <= Today
    BY <1>1, <1>3 DEF DailyInv
  <2> QED BY <1>2, <2>1
<1> QED BY <1>1, <1>4 DEF DailyInv

(* The daily limit holds for every limit, every mint and every ledger      *)
(* time: across midnight neither is a mint forgotten nor one counted twice.*)
THEOREM DailyLimitKept == UsdcSpec => []DailyLimitHolds
<1>1. UsdcInit => DailyInv
  <2>1. UsdcInit => Today = 0
    BY TermsAssumption DEF UsdcInit, Today
  <2> QED BY <2>1, UsdcInitTypes, DaysNat, UsdcAssumption DEF UsdcInit, DailyInv
<1>2. ASSUME DailyInv, [UsdcNext]_usdcVars
      PROVE  DailyInv'
  <2>0. ASSUME UNCHANGED <<now, lastMint, dailyMinted, mintedOn>>, UsdcTypeOK'
        PROVE  DailyInv'
    BY <2>0, <1>2 DEF DailyInv, Today
  <2>1. CASE UsdcCall
    <3>1. UsdcTypeOK'
      BY <2>1, <1>2, UsdcCallTypes DEF DailyInv
    <3>2. \/ \E u \in Users, a \in UsdcAmounts : UsdcMint(u, a)
          \/ UNCHANGED <<now, lastMint, dailyMinted, mintedOn>>
      BY <2>1 DEF UsdcCall, UsdcBurn, UsdcTransfer, UsdcApprove, UsdcBurnFrom,
                  UsdcTransferFrom, mintVars
    <3> QED BY <3>1, <3>2, <2>0, <1>2, MintCounted
  <2>2. CASE LedgerClose
    BY <2>2, <1>2, LedgerCloseCounted
  <2>3. CASE UNCHANGED usdcVars
    <3>1. UsdcTypeOK'
      BY <2>3, <1>2 DEF DailyInv, UsdcTypeOK, usdcVars
    <3> QED BY <3>1, <2>0, <2>3 DEF usdcVars
  <2> QED BY <1>2, <2>1, <2>2, <2>3 DEF UsdcNext
<1>3. DailyInv => DailyLimitHolds
  BY DailyCounted
<1> QED BY <1>1, <1>2, <1>3, PTL DEF UsdcSpec
=============================================================================
